---- MODULE Spec2Model ----
(***************************************************************************)
(* The constant folder (eval) and the static bounds checker (bounds_check) *)
(* of nvc, as state machines.                                              *)
(*                                                                         *)
(* eval is a recursive interpreter in the source.  Here its recursion is   *)
(* unfolded on an explicit control stack (ctl) and a value stack (vals):   *)
(* every C function of the evaluator is one action, which fires when the   *)
(* task on top of ctl belongs to that function.  The vtable_t of the       *)
(* source is the variables top, failed, exit and result.                   *)
(***************************************************************************)
EXTENDS Integers, Sequences, FiniteSets, TLC

\* ------------------------------------------------------------------------
\* Program constants
\* ------------------------------------------------------------------------

VTABLE_SZ == 16

MAX_ITERS == 1000

\* ------------------------------------------------------------------------
\* Bounds of the model
\* ------------------------------------------------------------------------

\* arguments of the folded test functions range over -MaxArg .. MaxArg
MaxArg == 12

\* indices of array references range over -1 .. MaxIndex
MaxIndex == 4

\* a real literal holds a multiple of 1/RealDen
RealDen == 2

\* ------------------------------------------------------------------------
\* Tree nodes (expressions).  Every expression node has the same fields so
\* that two nodes can always be compared.
\*   T_LITERAL  subkind L_INT: ival; L_REAL: ival in units of 1/RealDen,
\*              ident "" (finite), "inf", "-inf" or "nan"; L_STRING: chars
\*   T_REF      ref = kind of the declaration referred to, ident = its
\*              name, ival = tree_pos of an enumeration literal
\*   T_FCALL    ref = name of the function declaration, params = the
\*              values of the positional parameters
\*   T_TYPE_CONV params = <<operand>>
\* ------------------------------------------------------------------------

NULL == "NULL"

Node(k, sk, iv, cs, id, rf, ps, ty) ==
    [kind |-> k, subkind |-> sk, ival |-> iv, chars |-> cs, ident |-> id,
     ref |-> rf, params |-> ps, type |-> ty]

NullTree == Node("NULL", "", 0, <<>>, NULL, NULL, <<>>, NULL)

IntLit(i) == Node("T_LITERAL", "L_INT", i, <<>>, "", NULL, <<>>, "integer")

RealLit(n) == Node("T_LITERAL", "L_REAL", n, <<>>, "", NULL, <<>>, "real")

StrLit(cs) == Node("T_LITERAL", "L_STRING", 0, cs, "", NULL, <<>>, "string")

EnumRef(ty, id, pos) == Node("T_REF", "", pos, <<>>, id, "T_ENUM_LIT", <<>>, ty)

BoolRef(b) == EnumRef("boolean", IF b THEN "true" ELSE "false", IF b THEN 1 ELSE 0)

VarRef(id, ty) == Node("T_REF", "", 0, <<>>, id, "T_VAR_DECL", <<>>, ty)

PortRef(id, ty) == Node("T_REF", "", 0, <<>>, id, "T_PORT_DECL", <<>>, ty)

ConstRef(id, ty) == Node("T_REF", "", 0, <<>>, id, "T_CONST_DECL", <<>>, ty)

Fcall(f, ps, ty) == Node("T_FCALL", "", 0, <<>>, f, f, ps, ty)

TypeConv(e, ty) == Node("T_TYPE_CONV", "", 0, <<>>, "", NULL, <<e>>, ty)

Aggregate(ty) == Node("T_AGGREGATE", "", 0, <<>>, "", NULL, <<>>, ty)

\* ------------------------------------------------------------------------
\* Types
\* ------------------------------------------------------------------------

type_kind(ty) ==
    CASE ty = "integer" -> "T_INTEGER"
      [] ty = "real"    -> "T_REAL"
      [] ty = "boolean" -> "T_ENUM"
      [] ty = "bit"     -> "T_ENUM"
      [] ty = "string"  -> "T_UARRAY"
      [] OTHER          -> "T_NONE"

type_is_array(ty) == type_kind(ty) \in {"T_UARRAY", "T_CARRAY"}

\* ------------------------------------------------------------------------
\* Folding predicates and literal constructors
\* ------------------------------------------------------------------------

folded_int(t) == t.kind = "T_LITERAL" /\ t.subkind = "L_INT"

folded_real(t) == t.kind = "T_LITERAL" /\ t.subkind = "L_REAL"

folded_enum(t) == t.kind = "T_REF" /\ t.ref = "T_ENUM_LIT"

folded_bool(t) == t.kind = "T_REF" /\ t.ref = "T_ENUM_LIT" /\ t.type = "boolean"

\* the value folded_bool stores through its out-parameter
bool_val(t) == t.ival = 1

get_int_lit(t, i) == Node("T_LITERAL", "L_INT", i, <<>>, "", NULL, <<>>, t.type)

get_real_lit(t, n, tag) == Node("T_LITERAL", "L_REAL", n, <<>>, tag, NULL, <<>>, t.type)

get_bool_lit(t, b) == BoolRef(b)

folded(t) ==
    IF t.kind = "T_LITERAL" THEN TRUE
    ELSE IF t.kind = "T_REF" THEN folded_bool(t)
    ELSE FALSE

\* ------------------------------------------------------------------------
\* C arithmetic
\* ------------------------------------------------------------------------

llabs(a) == IF a < 0 THEN -a ELSE a

\* a / b of C: the quotient truncated toward zero (b # 0)
CDiv(a, b) ==
    IF (a >= 0) = (b > 0) THEN llabs(a) \div llabs(b)
    ELSE -(llabs(a) \div llabs(b))

\* a % b of C: the remainder with the sign of a (b # 0)
CRem(a, b) == a - b * CDiv(a, b)

MIN(a, b) == IF a < b THEN a ELSE b

MAX(a, b) == IF a > b THEN a ELSE b

\* the nearest multiple of 1/RealDen to n/d (d > 0), ties to even
RoundDiv(n, d) ==
    LET q  == n \div d
        r2 == 2 * (n - q * d)
    IN  IF r2 > d \/ (r2 = d /\ q % 2 = 1) THEN q + 1 ELSE q

\* ------------------------------------------------------------------------
\* Built-in reducers
\* ------------------------------------------------------------------------

RECURSIVE ExpLoop(_, _, _)
ExpLoop(result, a, b) ==
    IF b = 0 THEN result
    ELSE ExpLoop(IF b % 2 = 1 THEN result * a ELSE result, a * a, b \div 2)

RECURSIVE MinOf(_, _, _)
MinOf(args, i, r) ==
    IF i > Len(args) THEN r ELSE MinOf(args, i + 1, MIN(r, args[i]))

RECURSIVE MaxOf(_, _, _)
MaxOf(args, i, r) ==
    IF i > Len(args) THEN r ELSE MaxOf(args, i + 1, MAX(r, args[i]))

eval_fcall_log(t, builtin, args) ==
    CASE builtin = "not"  -> get_bool_lit(t, ~args[1])
      [] builtin = "and"  -> get_bool_lit(t, args[1] /\ args[2])
      [] builtin = "nand" -> get_bool_lit(t, ~(args[1] /\ args[2]))
      [] builtin = "or"   -> get_bool_lit(t, args[1] \/ args[2])
      [] builtin = "nor"  -> get_bool_lit(t, ~(args[1] \/ args[2]))
      [] builtin = "xor"  -> get_bool_lit(t, args[1] # args[2])
      [] builtin = "xnor" -> get_bool_lit(t, args[1] = args[2])
      [] builtin = "eq"   -> get_bool_lit(t, args[1] = args[2])
      [] builtin = "neq"  -> get_bool_lit(t, args[1] # args[2])
      [] OTHER            -> t

\* args are finite reals in units of 1/RealDen; x / 0.0 is an IEEE
\* infinity or NaN, which the literal carries as a tag
eval_fcall_real(t, builtin, args) ==
    CASE builtin = "mul" -> get_real_lit(t, RoundDiv(args[1] * args[2], RealDen), "")
      [] builtin = "div" ->
           IF args[2] = 0
           THEN get_real_lit(t, 0, IF args[1] = 0 THEN "nan"
                                   ELSE IF args[1] > 0 THEN "inf" ELSE "-inf")
           ELSE IF args[2] > 0
           THEN get_real_lit(t, RoundDiv(args[1] * RealDen, args[2]), "")
           ELSE get_real_lit(t, RoundDiv(-(args[1] * RealDen), -args[2]), "")
      [] builtin = "add" -> get_real_lit(t, args[1] + args[2], "")
      [] builtin = "sub" -> get_real_lit(t, args[1] - args[2], "")
      [] builtin = "neg" -> get_real_lit(t, -args[1], "")
      [] builtin = "identity" -> get_real_lit(t, args[1], "")
      [] builtin = "eq"  -> get_bool_lit(t, args[1] = args[2])
      [] builtin = "neq" -> get_bool_lit(t, args[1] # args[2])
      [] builtin = "gt"  -> get_bool_lit(t, args[1] > args[2])
      [] builtin = "lt"  -> get_bool_lit(t, args[1] < args[2])
      [] OTHER           -> t

\* the integer operations whose behaviour C leaves undefined on these
\* operands: a zero divisor
IntUndefined(builtin, args) ==
    builtin \in {"div", "mod", "rem"} /\ args[2] = 0

\* what an integer division that does not trap delivers for a zero
\* divisor (the quotient 0, hence the remainder a)
eval_fcall_int_notrap(t, builtin, args) ==
    CASE builtin = "div" -> get_int_lit(t, 0)
      [] builtin = "mod" -> get_int_lit(t, llabs(args[1]))
      [] builtin = "rem" -> get_int_lit(t, args[1])

eval_fcall_int(t, builtin, args, n) ==
    CASE builtin = "mul" -> get_int_lit(t, args[1] * args[2])
      [] builtin = "div" -> get_int_lit(t, CDiv(args[1], args[2]))
      [] builtin = "add" -> get_int_lit(t, args[1] + args[2])
      [] builtin = "sub" -> get_int_lit(t, args[1] - args[2])
      [] builtin = "neg" -> get_int_lit(t, -args[1])
      [] builtin = "identity" -> get_int_lit(t, args[1])
      [] builtin = "eq"  -> get_bool_lit(t, args[1] = args[2])
      [] builtin = "neq" -> get_bool_lit(t, args[1] # args[2])
      [] builtin = "gt"  -> get_bool_lit(t, args[1] > args[2])
      [] builtin = "lt"  -> get_bool_lit(t, args[1] < args[2])
      [] builtin = "leq" -> get_bool_lit(t, args[1] <= args[2])
      [] builtin = "geq" -> get_bool_lit(t, args[1] >= args[2])
      [] builtin = "exp" ->
           IF args[1] = 0 THEN get_int_lit(t, 0)
           ELSE IF args[2] = 0 THEN get_int_lit(t, 1)
           ELSE IF args[2] < 0 THEN t
           ELSE get_int_lit(t, ExpLoop(1, args[1], args[2]))
      [] builtin = "min" -> get_int_lit(t, MinOf(args, 2, args[1]))
      [] builtin = "max" -> get_int_lit(t, MaxOf(args, 2, args[1]))
      [] builtin = "mod" -> get_int_lit(t, CRem(llabs(args[1]), llabs(args[2])))
      [] builtin = "rem" -> get_int_lit(t, CRem(args[1], args[2]))
      [] OTHER           -> t

eval_fcall_enum(t, builtin, args, n) ==
    CASE builtin = "min" -> get_int_lit(t, MinOf(args, 2, args[1]))
      [] builtin = "max" -> get_int_lit(t, MaxOf(args, 2, args[1]))
      [] builtin = "eq"  -> get_bool_lit(t, args[1] = args[2])
      [] builtin = "neq" -> get_bool_lit(t, args[1] # args[2])
      [] OTHER           -> t

\* fatal_at is reached when eval_fcall_universal has no result
UniversalFolds(builtin, args) ==
    \/ builtin = "mulri" /\ folded_real(args[1]) /\ folded_int(args[2])
    \/ builtin = "mulir" /\ folded_real(args[2]) /\ folded_int(args[1])
    \/ builtin = "divri" /\ folded_real(args[1]) /\ folded_int(args[2])

eval_fcall_universal(t, builtin, args) ==
    CASE builtin = "mulri" -> get_real_lit(t, args[1].ival * args[2].ival, "")
      [] builtin = "mulir" -> get_real_lit(t, args[2].ival * args[1].ival, "")
      [] builtin = "divri" ->
           IF args[2].ival = 0
           THEN get_real_lit(t, 0, IF args[1].ival = 0 THEN "nan"
                                   ELSE IF args[1].ival > 0 THEN "inf" ELSE "-inf")
           ELSE IF args[2].ival > 0
           THEN get_real_lit(t, RoundDiv(args[1].ival, args[2].ival), "")
           ELSE get_real_lit(t, RoundDiv(-args[1].ival, -args[2].ival), "")

\* eval_fcall_str without the comparison of the lengths
eval_fcall_str_nolen(t, builtin, args) ==
    IF builtin \in {"aeq", "aneq"}
    THEN LET lchars == Len(args[1].chars)
             rchars == Len(args[2].chars)
             invert == (builtin = "aneq")
         IN  IF \E i \in 1..MIN(lchars, rchars) : args[1].chars[i] # args[2].chars[i]
             THEN get_bool_lit(t, invert)
             ELSE get_bool_lit(t, ~invert)
    ELSE t

eval_fcall_str(t, builtin, args) ==
    IF builtin \in {"aeq", "aneq"}
    THEN LET lchars == Len(args[1].chars)
             rchars == Len(args[2].chars)
             invert == (builtin = "aneq")
         IN  IF lchars # rchars THEN get_bool_lit(t, invert)
             ELSE IF \E i \in 1..lchars : args[1].chars[i] # args[2].chars[i]
             THEN get_bool_lit(t, invert)
             ELSE get_bool_lit(t, ~invert)
    ELSE t

\* ------------------------------------------------------------------------
\* The binding environment.  A frame is the sequence binding[0..size-1]
\* of the source; the stack of frames has its top frame last.
\* ------------------------------------------------------------------------

vtable_push(tp) == Append(tp, <<>>)

vtable_pop(tp) == SubSeq(tp, 1, Len(tp) - 1)

FrameHas(f, name) == \E i \in 1..Len(f) : f[i].name = name

FrameIndex(f, name) == CHOOSE i \in 1..Len(f) : f[i].name = name /\ \A j \in 1..(i - 1) : f[j].name # name

\* vtable_bind reaches its assert with a full frame
BindAsserts(tp, name) ==
    /\ Len(tp) > 0
    /\ ~FrameHas(tp[Len(tp)], name)
    /\ ~(Len(tp[Len(tp)]) < VTABLE_SZ)

\* vtable_bind without the search for an existing entry
vtable_bind_append(tp, name, value) ==
    IF Len(tp) = 0 THEN tp
    ELSE [tp EXCEPT ![Len(tp)] = Append(tp[Len(tp)], [name |-> name, value |-> value])]

vtable_bind(tp, name, value) ==
    IF Len(tp) = 0 THEN tp
    ELSE LET f == tp[Len(tp)]
         IN  IF FrameHas(f, name)
             THEN [tp EXCEPT ![Len(tp)] = [f EXCEPT ![FrameIndex(f, name)].value = value]]
             ELSE [tp EXCEPT ![Len(tp)] = Append(f, [name |-> name, value |-> value])]

RECURSIVE vtframe_get(_, _, _)
vtframe_get(tp, d, name) ==
    IF d = 0 THEN NullTree
    ELSE IF FrameHas(tp[d], name) THEN tp[d][FrameIndex(tp[d], name)].value
    ELSE vtframe_get(tp, d - 1, name)

vtable_get(tp, name) == vtframe_get(tp, Len(tp), name)

\* ------------------------------------------------------------------------
\* Statements and declarations of function bodies
\* ------------------------------------------------------------------------

Return(e) == [kind |-> "T_RETURN", value |-> e]

If(c, ss, es) == [kind |-> "T_IF", value |-> c, stmts |-> ss, else_stmts |-> es]

Named(n, s) == [subkind |-> "A_NAMED", name |-> n, value |-> s]

Others(s) == [subkind |-> "A_OTHERS", name |-> NullTree, value |-> s]

RangeAssoc(s) == [subkind |-> "A_RANGE", name |-> NullTree, value |-> s]

Case(v, as) == [kind |-> "T_CASE", value |-> v, assocs |-> as]

While(label, c, ss) ==
    [kind |-> "T_WHILE", ident |-> label, has_value |-> TRUE, value |-> c, stmts |-> ss]

Loop(label, ss) ==
    [kind |-> "T_WHILE", ident |-> label, has_value |-> FALSE, value |-> NullTree, stmts |-> ss]

For(label, rk, l, r, i, ss) ==
    [kind |-> "T_FOR", ident |-> label, range |-> [kind |-> rk, left |-> l, right |-> r],
     decls |-> <<i>>, stmts |-> ss]

Assign(tg, e) == [kind |-> "T_VAR_ASSIGN", target |-> tg, value |-> e]

Block(nd, ss) == [kind |-> "T_BLOCK", decls |-> nd, stmts |-> ss]

Exit(label) == [kind |-> "T_EXIT", has_value |-> FALSE, value |-> NullTree, ident2 |-> label]

ExitWhen(label, c) == [kind |-> "T_EXIT", has_value |-> TRUE, value |-> c, ident2 |-> label]

\* a statement kind eval_stmt has no case for
Wait == [kind |-> "T_WAIT"]

VarDecl(id, e) == [kind |-> "T_VAR_DECL", ident |-> id, has_value |-> TRUE, value |-> e]

VarDeclNoInit(id) == [kind |-> "T_VAR_DECL", ident |-> id, has_value |-> FALSE, value |-> NullTree]

FuncBody(ps, ds, ss) ==
    [kind |-> "T_FUNC_BODY", builtin |-> NULL, ports |-> ps, decls |-> ds, stmts |-> ss]

\* a call of a built-in operator
B(op, ps, ty) == Fcall(op, ps, ty)

I(x) == PortRef(x, "integer")

V(x) == VarRef(x, "integer")

\* ------------------------------------------------------------------------
\* The declarations the call trees refer to: the built-in operators, the
\* functions of test/simp/ffold.vhd, and functions that exercise each
\* statement kind of the evaluator.
\* ------------------------------------------------------------------------

Builtins ==
    {"add", "sub", "mul", "div", "mod", "rem", "neg", "identity", "exp",
     "min", "max", "eq", "neq", "lt", "leq", "gt", "geq",
     "not", "and", "nand", "or", "nor", "xor", "xnor",
     "mulri", "mulir", "divri", "aeq", "aneq"}

Hello == <<"h", "e", "l", "l", "o">>

\* the value of a constant declaration
ConstValue(id) == IF id = "C3" THEN IntLit(3) ELSE B("add", <<IntLit(1), IntLit(1)>>, "integer")

\* a variable that is never bound
U(ty) == VarRef("u", ty)

ManyDecls(n) == [i \in 1..n |-> VarDecl("v" \o ToString(i), IntLit(i))]

FuncDecl(f) ==
    CASE f \in Builtins ->
           [kind |-> "T_FUNC_DECL", builtin |-> f, ports |-> <<>>, decls |-> <<>>, stmts |-> <<>>]
      [] f = "add4" ->
           [kind |-> "T_FUNC_DECL", builtin |-> NULL, ports |-> <<"x">>, decls |-> <<>>, stmts |-> <<>>]
      [] f = "add1" ->
           FuncBody(<<"x">>, <<>>, <<Return(B("add", <<I("x"), IntLit(1)>>, "integer"))>>)
      [] f = "log2" ->
           FuncBody(<<"x">>,
              <<VarDecl("r", IntLit(0)), VarDecl("c", IntLit(1))>>,
              <<If(B("leq", <<I("x"), IntLit(1)>>, "boolean"),
                   <<Assign(V("r"), IntLit(1))>>,
                   <<While("log2_loop", B("lt", <<V("c"), I("x")>>, "boolean"),
                        <<Assign(V("r"), B("add", <<V("r"), IntLit(1)>>, "integer")),
                          Assign(V("c"), B("mul", <<V("c"), IntLit(2)>>, "integer"))>>)>>),
                Return(V("r"))>>)
      [] f = "case1" ->
           FuncBody(<<"x">>, <<>>,
              <<Case(I("x"), <<Named(IntLit(1), Return(IntLit(2))),
                               Named(IntLit(2), Return(IntLit(3))),
                               Others(Return(IntLit(5)))>>)>>)
      [] f = "adddef" ->
           FuncBody(<<"x", "y">>, <<>>, <<Return(B("add", <<I("x"), I("y")>>, "integer"))>>)
      [] f = "chain1" ->
           FuncBody(<<"x">>, <<VarDecl("r", BoolRef(FALSE))>>,
              <<If(B("aeq", <<PortRef("x", "string"), StrLit(Hello)>>, "boolean"),
                   <<Assign(VarRef("r", "boolean"), BoolRef(TRUE))>>, <<>>),
                Return(VarRef("r", "boolean"))>>)
      [] f = "chain2" ->
           FuncBody(<<"x", "y">>, <<VarDecl("r", BoolRef(FALSE))>>,
              <<If(B("or", <<Fcall("chain1", <<PortRef("x", "string")>>, "boolean"),
                             Fcall("chain1", <<PortRef("y", "string")>>, "boolean")>>, "boolean"),
                   <<Assign(VarRef("r", "boolean"), BoolRef(TRUE))>>, <<>>),
                Return(VarRef("r", "boolean"))>>)
      \* variable c : integer := 0;
      \* while c < x loop c := c + 1; end loop; return c;
      [] f = "count" ->
           FuncBody(<<"x">>, <<VarDecl("c", IntLit(0))>>,
              <<While("count_loop", B("lt", <<V("c"), I("x")>>, "boolean"),
                   <<Assign(V("c"), B("add", <<V("c"), IntLit(1)>>, "integer"))>>),
                Return(V("c"))>>)
      \* VTABLE_SZ initialised variables, and one more
      [] f = "bind16" -> FuncBody(<<>>, ManyDecls(VTABLE_SZ), <<Return(V("v1"))>>)
      [] f = "bind17" -> FuncBody(<<>>, ManyDecls(VTABLE_SZ + 1), <<Return(V("v1"))>>)
      \* case x is when 1 => return 2; when 3 to 4 => return 3; when others => return 5;
      [] f = "caserange" ->
           FuncBody(<<"x">>, <<>>,
              <<Case(I("x"), <<Named(IntLit(1), Return(IntLit(2))),
                               RangeAssoc(Return(IntLit(3))),
                               Others(Return(IntLit(5)))>>)>>)
      \* case x is when 1 => r := 2; when C3 => r := 3; when 1 => r := 4; when others => r := 5;
      [] f = "casedup" ->
           FuncBody(<<"x">>, <<VarDecl("r", IntLit(0))>>,
              <<Case(I("x"), <<Named(IntLit(1), Assign(V("r"), IntLit(2))),
                               Named(ConstRef("C3", "integer"), Assign(V("r"), IntLit(3))),
                               Named(IntLit(1), Assign(V("r"), IntLit(4))),
                               Others(Assign(V("r"), IntLit(5)))>>),
                Return(V("r"))>>)
      [] f = "blockdecl" -> FuncBody(<<"x">>, <<>>, <<Block(1, <<Return(I("x"))>>)>>)
      [] f = "blockok" ->
           FuncBody(<<"x">>, <<VarDeclNoInit("r")>>,
              <<Block(0, <<Assign(V("r"), B("neg", <<I("x")>>, "integer"))>>), Return(V("r"))>>)
      [] f = "unsup" -> FuncBody(<<"x">>, <<>>, <<Wait, Return(I("x"))>>)
      \* for i in 1 to 2 loop if i = 1 then wait; else return 7; end if; end loop;
      [] f = "failfor" ->
           FuncBody(<<"x">>, <<>>,
              <<For("failfor_loop", "RANGE_TO", IntLit(1), IntLit(2), "i",
                   <<If(B("eq", <<V("i"), IntLit(1)>>, "boolean"),
                        <<Wait>>, <<Return(IntLit(7))>>)>>)>>)
      \* return add1(x) + unsup(x);
      [] f = "callfail" ->
           FuncBody(<<"x">>, <<>>,
              <<Return(B("add", <<Fcall("add1", <<I("x")>>, "integer"),
                                  Fcall("unsup", <<I("x")>>, "integer")>>, "integer"))>>)
      \* for i in 1 to x loop r := r + i; end loop; return r;
      [] f = "sumto" ->
           FuncBody(<<"x">>, <<VarDecl("r", IntLit(0))>>,
              <<For("sumto_loop", "RANGE_TO", IntLit(1), I("x"), "i",
                   <<Assign(V("r"), B("add", <<V("r"), V("i")>>, "integer"))>>),
                Return(V("r"))>>)
      \* for i in x downto 1 loop r := r + i; end loop; return r;
      [] f = "sumdown" ->
           FuncBody(<<"x">>, <<VarDecl("r", IntLit(0))>>,
              <<For("sumdown_loop", "RANGE_DOWNTO", I("x"), IntLit(1), "i",
                   <<Assign(V("r"), B("add", <<V("r"), V("i")>>, "integer"))>>),
                Return(V("r"))>>)
      \* loop c := c + 1; exit when c >= x; end loop; return c;
      [] f = "untilx" ->
           FuncBody(<<"x">>, <<VarDecl("c", IntLit(0))>>,
              <<Loop("untilx_loop",
                   <<Assign(V("c"), B("add", <<V("c"), IntLit(1)>>, "integer")),
                     ExitWhen("untilx_loop", B("geq", <<V("c"), I("x")>>, "boolean"))>>),
                Return(V("c"))>>)
      \* loop exit; end loop; return x + C3;
      [] f = "useconst" ->
           FuncBody(<<"x">>, <<>>,
              <<Loop("useconst_loop", <<Exit("useconst_loop")>>),
                Return(B("add", <<I("x"), ConstRef("C3", "integer")>>, "integer"))>>)
      [] f = "toint" -> FuncBody(<<"x">>, <<>>, <<Return(TypeConv(PortRef("x", "real"), "integer"))>>)
      [] f = "toreal" -> FuncBody(<<"x">>, <<>>, <<Return(TypeConv(I("x"), "real"))>>)
      [] f = "tostr" -> FuncBody(<<"x">>, <<>>, <<Return(StrLit(Hello))>>)
      [] f = "bitid" -> FuncBody(<<"x">>, <<>>, <<Return(PortRef("x", "bit"))>>)
      \* bodies whose first statement cannot be folded
      [] f = "ifu" -> FuncBody(<<"x">>, <<>>, <<If(U("boolean"), <<>>, <<>>), Return(I("x"))>>)
      [] f = "whileu" ->
           FuncBody(<<"x">>, <<>>, <<While("whileu_loop", U("boolean"), <<>>), Return(I("x"))>>)
      [] f = "exitu" ->
           FuncBody(<<"x">>, <<>>,
              <<Loop("exitu_loop", <<ExitWhen("exitu_loop", U("boolean"))>>), Return(I("x"))>>)
      [] f = "caseu" ->
           FuncBody(<<"x">>, <<>>, <<Case(U("integer"), <<Others(Return(IntLit(5)))>>), Return(I("x"))>>)
      [] f = "casearr" ->
           FuncBody(<<"x">>, <<>>, <<Case(StrLit(Hello), <<Others(Return(IntLit(5)))>>), Return(I("x"))>>)
      [] f = "casenameu" ->
           FuncBody(<<"x">>, <<>>,
              <<Case(I("x"), <<Named(U("integer"), Return(IntLit(2))), Others(Return(IntLit(5)))>>),
                Return(I("x"))>>)
      [] f = "forexpr" ->
           FuncBody(<<"x">>, <<>>,
              <<For("forexpr_loop", "RANGE_EXPR", IntLit(1), IntLit(2), "i", <<>>), Return(I("x"))>>)
      [] f = "foru" ->
           FuncBody(<<"x">>, <<>>,
              <<For("foru_loop", "RANGE_TO", IntLit(1), U("integer"), "i", <<>>), Return(I("x"))>>)
      [] f = "assignarr" ->
           FuncBody(<<"x">>, <<>>,
              <<Assign(Node("T_ARRAY_REF", "", 0, <<>>, "", NULL, <<>>, "bit"), IntLit(1)),
                Return(I("x"))>>)
      \* for i in 1 to 3 loop exit; end loop; return x;
      [] f = "forexit" ->
           FuncBody(<<"x">>, <<>>,
              <<For("forexit_loop", "RANGE_TO", IntLit(1), IntLit(3), "i", <<Exit("forexit_loop")>>),
                Return(I("x"))>>)
      \* for i in 1 to x loop if i = r + 1 then r := i; else r := -100; end if; end loop;
      \* return r;  with r initially 0
      [] f = "upto" ->
           FuncBody(<<"x">>, <<VarDecl("r", IntLit(0))>>,
              <<For("upto_loop", "RANGE_TO", IntLit(1), I("x"), "i",
                   <<If(B("eq", <<V("i"), B("add", <<V("r"), IntLit(1)>>, "integer")>>, "boolean"),
                        <<Assign(V("r"), V("i"))>>,
                        <<Assign(V("r"), IntLit(-100))>>)>>),
                Return(V("r"))>>)
      \* for i in x downto 1 loop if i = r - 1 then r := i; else r := 100; end if; end loop;
      \* return r;  with r initially x + 1
      [] f = "downfrom" ->
           FuncBody(<<"x">>, <<VarDecl("r", B("add", <<I("x"), IntLit(1)>>, "integer"))>>,
              <<For("downfrom_loop", "RANGE_DOWNTO", I("x"), IntLit(1), "i",
                   <<If(B("eq", <<V("i"), B("sub", <<V("r"), IntLit(1)>>, "integer")>>, "boolean"),
                        <<Assign(V("r"), V("i"))>>,
                        <<Assign(V("r"), IntLit(100))>>)>>),
                Return(V("r"))>>)
      \* outer: loop
      \*    inner: while r < 100 loop
      \*       r := r + 1; exit outer when r >= x; exit inner; r := 100;
      \*    end loop;
      \*    r := r + 1;
      \* end loop;
      \* return r;  with r initially 0
      [] f = "nested" ->
           FuncBody(<<"x">>, <<VarDecl("r", IntLit(0))>>,
              <<Loop("nested_outer",
                   <<While("nested_inner", B("lt", <<V("r"), IntLit(100)>>, "boolean"),
                        <<Assign(V("r"), B("add", <<V("r"), IntLit(1)>>, "integer")),
                          ExitWhen("nested_outer", B("geq", <<V("r"), I("x")>>, "boolean")),
                          Exit("nested_inner"),
                          Assign(V("r"), IntLit(100))>>),
                     Assign(V("r"), B("add", <<V("r"), IntLit(1)>>, "integer"))>>),
                Return(V("r"))>>)
      \* a body that ends without a return
      [] f = "noret" -> FuncBody(<<"x">>, <<>>, <<Assign(V("r"), I("x"))>>)
      [] f = "assignu" ->
           FuncBody(<<"x">>, <<>>, <<Assign(V("r"), U("integer")), Return(I("x"))>>)
      \* variable r : integer; begin return r;
      [] f = "readr" -> FuncBody(<<"x">>, <<VarDeclNoInit("r")>>, <<Return(V("r"))>>)
      \* variable r : integer := 5; begin return readr(x);
      [] f = "callreadr" ->
           FuncBody(<<"x">>, <<VarDecl("r", IntLit(5))>>,
              <<Return(Fcall("readr", <<I("x")>>, "integer"))>>)

\* ------------------------------------------------------------------------
\* State
\* ------------------------------------------------------------------------

VARIABLES
    pc,        \* "idle", "run" (inside eval), "done" (eval returned), "aborted"
    fcall,     \* the argument of the running or last eval
    ret,       \* the node eval returned
    top,       \* vtable_t.top: the stack of binding frames
    failed,    \* vtable_t.failed
    exit,      \* vtable_t.exit
    result,    \* vtable_t.result
    ctl,       \* the C call stack of the evaluator: pending tasks, next first
    vals,      \* values returned by finished eval_expr calls, latest first
    pushes,    \* number of vtable_push calls of this eval
    pops,      \* number of vtable_pop calls of this eval
    lastFcall, \* frame-stack depth at entry and return of the eval_fcall that returned last
    lastCase,  \* the eval_case that returned last: scrutinee value and branches run
    bpc,       \* "idle", "visit" (inside bounds_check), "done" (bounds_check returned)
    tree,      \* the nodes of the tree given to bounds_check, in the order of the visit
    visit,     \* the position of the node tree_visit is at
    attrs,     \* the attributes of each node of the tree
    errors,    \* static int errors
    diag,      \* the diagnostics error_at received in the running or last bounds_check
    runs,      \* number of bounds_check calls that returned
    before,    \* errors when the running or last bounds_check was entered
    first,     \* what the first bounds_check of the tree left behind
    cover,     \* the covered-interval list after each choice of the last integer case check
    debug,     \* static bool debug
    have_debug, \* static bool have_debug of eval
    warnings,  \* number of warn_at calls of the running or last eval
    seen       \* the first eval that returned: its call, result and debug, whether an eval
               \* of another call has failed since (others) and one of the same call has
               \* returned since (again)

evalVars == <<pc, fcall, ret, top, failed, exit, result, ctl, vals, pushes, pops,
              lastFcall, lastCase>>

boundsVars == <<bpc, tree, visit, attrs, errors, diag, runs, before, first, cover>>

hostVars == <<debug, have_debug, warnings, seen>>

VARIABLES
    objs,      \* the vhpi_obj_t objects of the heap, by address
    cb_list,   \* static cb_list_t cb_list
    rt_cbs,    \* the callbacks the runtime holds: the function and its user pointer
    handles,   \* the callback handles the VHPI user holds
    vpc,       \* "running", or "aborted" after a failed assert
    hist       \* per object: routine calls, calls while disabled or after release,
               \* uses after free, vhpi_release_handle called

vhpiVars == <<objs, cb_list, rt_cbs, handles, vpc, hist>>

vars == <<evalVars, boundsVars, hostVars, vhpiVars>>

\* the number of vhpi_obj_t allocations of one run
MaxObjs == 2

\* the number of times the routine of one callback is followed
MaxCalls == 2

Objs == 1..MaxObjs

\* memory that xmalloc has not handed out yet
NoObj ==
    [magic |-> "none", reason |-> "", enabled |-> FALSE, fired |-> FALSE, repetitive |-> FALSE,
     released |-> FALSE, list_pos |-> -1, has_handle |-> FALSE]

NoHist == [calls |-> 0, late |-> FALSE, uaf |-> FALSE, released |-> FALSE]

NoFcall == [entry |-> 0, exit |-> 0, result |-> NullTree, n |-> 0]

NoCase == [n |-> 0, t |-> Case(NullTree, <<>>), v |-> 0, ran |-> <<>>]

NoRun == [errors |-> 0, diag |-> <<>>, attrs |-> <<>>, tree |-> <<>>]

NoSeen == [fcall |-> NullTree, ret |-> NullTree, debug |-> TRUE, others |-> FALSE,
           again |-> FALSE]

K == Head(ctl)

Rest == Tail(ctl)

ExprT(t) == [op |-> "expr", t |-> t]

StmtT(t) == [op |-> "stmt", t |-> t]

StmtsT(list) == [op |-> "stmts", list |-> list, i |-> 1]

At(op) == pc = "run" /\ ctl # <<>> /\ K.op = op

AtExpr(kind) == At("expr") /\ K.t.kind = kind

AtStmt(kind) == At("stmt") /\ K.t.kind = kind

\* a step that only moves control
Go(c, v) ==
    /\ ctl' = c
    /\ vals' = v
    /\ UNCHANGED <<pc, fcall, ret, top, failed, exit, result, pushes, pops, lastFcall, lastCase>>
    /\ UNCHANGED <<boundsVars, vhpiVars, hostVars>>

\* v->failed = true and return from the current function, after w calls of warn_at
SetFailed(c, v, w) ==
    /\ ctl' = c
    /\ vals' = v
    /\ failed' = TRUE
    /\ warnings' = warnings + w
    /\ UNCHANGED <<pc, fcall, ret, top, exit, result, pushes, pops, lastFcall, lastCase>>
    /\ UNCHANGED <<boundsVars, vhpiVars, debug, have_debug, seen>>

\* eval_error: warn if debug is set, set failed and return from the current function
EvalError(c, v) == SetFailed(c, v, IF debug THEN 1 ELSE 0)

\* a step that changes the bindings
Bind(c, v, tp) ==
    /\ ctl' = c
    /\ vals' = v
    /\ top' = tp
    /\ UNCHANGED <<pc, fcall, ret, failed, exit, result, pushes, pops, lastFcall, lastCase>>
    /\ UNCHANGED <<boundsVars, vhpiVars, hostVars>>

\* a failed assert, fatal_at or arithmetic trap ends the process
Abort ==
    /\ pc' = "aborted"
    /\ UNCHANGED <<fcall, ret, top, failed, exit, result, ctl, vals, pushes, pops,
                   lastFcall, lastCase>>
    /\ UNCHANGED <<boundsVars, vhpiVars, hostVars>>

\* ------------------------------------------------------------------------
\* eval: entry and return
\* ------------------------------------------------------------------------

Init ==
    /\ pc = "idle"
    /\ fcall = NullTree
    /\ ret = NullTree
    /\ top = <<>>
    /\ failed = FALSE
    /\ exit = NULL
    /\ result = NullTree
    /\ ctl = <<>>
    /\ vals = <<>>
    /\ pushes = 0
    /\ pops = 0
    /\ lastFcall = NoFcall
    /\ lastCase = NoCase
    /\ bpc = "idle"
    /\ tree = <<>>
    /\ visit = 0
    /\ attrs = <<>>
    /\ errors = 0
    /\ diag = <<>>
    /\ runs = 0
    /\ before = 0
    /\ first = NoRun
    /\ cover = <<>>
    /\ debug = TRUE
    /\ have_debug = FALSE
    /\ warnings = 0
    /\ seen = NoSeen
    /\ objs = [o \in Objs |-> NoObj]
    /\ cb_list = [objects |-> <<>>, num |-> 0]
    /\ rt_cbs = {}
    /\ handles = {}
    /\ vpc = "running"
    /\ hist = [o \in Objs |-> NoHist]

\* tree_t eval(tree_t fcall): set up the vtable and call eval_fcall
Eval_keeps_failed(c) ==
    /\ c.kind = "T_FCALL"
    /\ pc' = "run"
    /\ fcall' = c
    /\ ret' = NullTree
    /\ top' = <<>>
    /\ exit' = NULL
    /\ result' = NullTree
    /\ ctl' = <<ExprT(c), [op |-> "eval_ret"]>>
    /\ vals' = <<>>
    /\ pushes' = 0
    /\ pops' = 0
    /\ lastFcall' = NoFcall
    /\ lastCase' = NoCase
    /\ IF have_debug THEN UNCHANGED debug ELSE debug' \in BOOLEAN
    /\ have_debug' = TRUE
    /\ warnings' = 0
    /\ UNCHANGED <<boundsVars, vhpiVars, seen, failed>>

Eval(c) ==
    /\ c.kind = "T_FCALL"
    /\ pc' = "run"
    /\ fcall' = c
    /\ ret' = NullTree
    /\ top' = <<>>
    /\ failed' = FALSE
    /\ exit' = NULL
    /\ result' = NullTree
    /\ ctl' = <<ExprT(c), [op |-> "eval_ret"]>>
    /\ vals' = <<>>
    /\ pushes' = 0
    /\ pops' = 0
    /\ lastFcall' = NoFcall
    /\ lastCase' = NoCase
    /\ IF have_debug THEN UNCHANGED debug ELSE debug' \in BOOLEAN
    /\ have_debug' = TRUE
    /\ warnings' = 0
    /\ UNCHANGED <<boundsVars, vhpiVars, seen>>

\* return vt.failed ? fcall : r
EvalReturnValue ==
    /\ At("eval_ret")
    /\ pc' = "done"
    /\ ret' = IF failed THEN fcall ELSE Head(vals)
    /\ ctl' = <<>>
    /\ vals' = <<>>
    /\ seen' = IF seen = NoSeen
               THEN [fcall |-> fcall, ret |-> ret', debug |-> debug, others |-> FALSE,
                     again |-> FALSE]
               ELSE IF fcall = seen.fcall THEN [seen EXCEPT !.again = TRUE]
               ELSE [seen EXCEPT !.others = @ \/ failed]
    /\ UNCHANGED <<fcall, top, failed, exit, result, pushes, pops, lastFcall, lastCase>>
    /\ UNCHANGED <<boundsVars, vhpiVars, debug, have_debug, warnings>>

\* ------------------------------------------------------------------------
\* Expressions
\* ------------------------------------------------------------------------

\* eval_expr, default case: the expression is returned as it is
EvalExpr ==
    /\ At("expr")
    /\ K.t.kind \notin {"T_FCALL", "T_REF", "T_TYPE_CONV"}
    /\ Go(Rest, <<K.t>> \o vals)

EvalRef ==
    /\ AtExpr("T_REF")
    /\ IF K.t.ref = "T_CONST_DECL"
       THEN Go(<<ExprT(ConstValue(K.t.ident))>> \o Rest, vals)
       ELSE LET binding == vtable_get(top, K.t.ident)
            IN  Go(Rest, <<IF binding # NullTree THEN binding ELSE K.t>> \o vals)

\* (int)l for a double l: the value truncated toward zero; the conversion
\* of an infinity or a NaN is undefined and gives INT_MIN, INT_MAX or 0
RealToInt(value) ==
    IF value.ident = "" THEN {CDiv(value.ival, RealDen)}
    ELSE {-2147483647 - 1, 2147483647, 0}

EvalTypeConv ==
    /\ pc = "run"
    /\ ctl # <<>>
    /\ IF K.op = "expr" /\ K.t.kind = "T_TYPE_CONV"
       THEN Go(<<ExprT(K.t.params[1]), [op |-> "type_conv", t |-> K.t]>> \o Rest, vals)
       ELSE /\ K.op = "type_conv"
            /\ LET value  == Head(vals)
                   from_k == type_kind(value.type)
                   to_k   == type_kind(K.t.type)
               IN  IF from_k = "T_INTEGER" /\ to_k = "T_REAL" /\ folded_int(value)
                   THEN Go(Rest, <<get_real_lit(K.t, value.ival * RealDen, "")>> \o Tail(vals))
                   ELSE IF from_k = "T_REAL" /\ to_k = "T_INTEGER" /\ folded_real(value)
                   THEN \E i \in RealToInt(value) :
                           Go(Rest, <<get_int_lit(K.t, i)>> \o Tail(vals))
                   ELSE Go(Rest, <<K.t>> \o Tail(vals))

\* a return of eval_fcall with the value on top of v
FcallReturns(c, v, entry, tp, res) ==
    /\ ctl' = c
    /\ vals' = v
    /\ top' = tp
    /\ result' = res
    /\ lastFcall' = [entry |-> entry, exit |-> Len(tp), result |-> res, n |-> lastFcall.n + 1]
    /\ UNCHANGED <<boundsVars, vhpiVars, hostVars>>

RECURSIVE BindPorts(_, _, _, _)
BindPorts(tp, ports, params, i) ==
    IF i > Len(ports) THEN tp
    ELSE BindPorts(vtable_bind(tp, ports[i], params[i]), ports, params, i + 1)

RECURSIVE BindPortsAsserts(_, _, _, _)
BindPortsAsserts(tp, ports, params, i) ==
    /\ i <= Len(ports)
    /\ \/ BindAsserts(tp, ports[i])
       \/ BindPortsAsserts(vtable_bind(tp, ports[i], params[i]), ports, params, i + 1)

\* vtable_push, bind the ports, and go on to eval_func_body
EnterBody(t, params, c, v, depth) ==
    LET decl == FuncDecl(t.ref)
        tp   == vtable_push(top)
    IN  IF BindPortsAsserts(tp, decl.ports, params, 1) THEN Abort
        ELSE /\ top' = BindPorts(tp, decl.ports, params, 1)
             /\ pushes' = pushes + 1
             /\ ctl' = <<[op |-> "func_body", t |-> t, i |-> 1, pending |-> FALSE],
                         [op |-> "fcall_ret", t |-> t, depth |-> depth]>> \o c
             /\ vals' = v
             /\ UNCHANGED <<pc, fcall, ret, failed, exit, result, pops, lastFcall, lastCase>>
             /\ UNCHANGED <<boundsVars, vhpiVars, hostVars>>

\* eval_fcall for a function without the builtin attribute
EvalFcall ==
    /\ pc = "run"
    /\ ctl # <<>>
    /\ IF K.op = "expr" /\ K.t.kind = "T_FCALL"
       THEN LET decl == FuncDecl(K.t.ref)
            IN  /\ decl.builtin = NULL
                /\ IF decl.kind # "T_FUNC_BODY" \/ type_is_array(K.t.type)
                   THEN /\ FcallReturns(Rest, <<K.t>> \o vals, Len(top), top, result)
                        /\ UNCHANGED <<pc, fcall, ret, failed, exit, pushes, pops, lastCase>>
                   ELSE IF Len(decl.ports) = 0
                   THEN EnterBody(K.t, <<>>, Rest, vals, Len(top))
                   ELSE Go(<<ExprT(K.t.params[1]),
                             [op |-> "fcall_param", t |-> K.t, i |-> 1, params |-> <<>>,
                              depth |-> Len(top)]>> \o Rest, vals)
       ELSE /\ K.op = "fcall_param"
            /\ LET decl   == FuncDecl(K.t.ref)
                   param  == Head(vals)
                   params == Append(K.params, param)
               IN  IF ~folded(param)
                   THEN /\ FcallReturns(Rest, <<K.t>> \o Tail(vals), K.depth, top, result)
                        /\ UNCHANGED <<pc, fcall, ret, failed, exit, pushes, pops, lastCase>>
                   ELSE IF K.i = Len(decl.ports)
                   THEN EnterBody(K.t, params, Rest, Tail(vals), K.depth)
                   ELSE Go(<<ExprT(K.t.params[K.i + 1]),
                             [K EXCEPT !.i = K.i + 1, !.params = params]>> \o Rest, Tail(vals))

\* eval_func_body: bind the initialised variables, then run the statements
EvalFuncBody ==
    /\ At("func_body")
    /\ LET decls == FuncDecl(K.t.ref).decls
       IN  IF K.pending
           THEN IF BindAsserts(top, decls[K.i].ident) THEN Abort
                ELSE Bind(<<[K EXCEPT !.i = K.i + 1, !.pending = FALSE]>> \o Rest, Tail(vals),
                          vtable_bind(top, decls[K.i].ident, Head(vals)))
           ELSE IF K.i > Len(decls)
           THEN Go(<<StmtsT(FuncDecl(K.t.ref).stmts)>> \o Rest, vals)
           ELSE IF decls[K.i].kind = "T_VAR_DECL" /\ decls[K.i].has_value
           THEN Go(<<ExprT(decls[K.i].value), [K EXCEPT !.pending = TRUE]>> \o Rest, vals)
           ELSE Go(<<[K EXCEPT !.i = K.i + 1]>> \o Rest, vals)

\* a pop that also resets the failed flag
EvalFcallResult_clears_failed ==
    /\ At("fcall_ret")
    /\ FcallReturns(Rest,
                    <<IF result # NullTree /\ folded(result) THEN result ELSE K.t>> \o vals,
                    K.depth, vtable_pop(top), NullTree)
    /\ pops' = pops + 1
    /\ failed' = FALSE
    /\ UNCHANGED <<pc, fcall, ret, exit, pushes, lastCase>>

\* if (result == NULL) return t; ahead of the pop
EvalFcallResult_early_return ==
    /\ At("fcall_ret")
    /\ IF result = NullTree
       THEN /\ FcallReturns(Rest, <<K.t>> \o vals, K.depth, top, result)
            /\ UNCHANGED <<pc, fcall, ret, failed, exit, pushes, pops, lastCase>>
       ELSE /\ FcallReturns(Rest, <<IF folded(result) THEN result ELSE K.t>> \o vals,
                            K.depth, vtable_pop(top), NullTree)
            /\ pops' = pops + 1
            /\ UNCHANGED <<pc, fcall, ret, failed, exit, pushes, lastCase>>

\* eval_fcall after eval_func_body: take the result, pop the frame
EvalFcallResult ==
    /\ At("fcall_ret")
    /\ FcallReturns(Rest,
                    <<IF result # NullTree /\ folded(result) THEN result ELSE K.t>> \o vals,
                    K.depth, vtable_pop(top), NullTree)
    /\ pops' = pops + 1
    /\ UNCHANGED <<pc, fcall, ret, failed, exit, pushes, lastCase>>

\* the reducer eval_fcall selects for the folded arguments targs
Reduce(t, builtin, targs, c, v, depth) ==
    LET n     == Len(targs)
        iargs == [i \in 1..n |-> targs[i].ival]
        bargs == [i \in 1..n |-> bool_val(targs[i])]
        can_fold_int  == \A i \in 1..n : folded_int(targs[i])
        can_fold_log  == \A i \in 1..n : folded_bool(targs[i])
        can_fold_real == \A i \in 1..n : folded_real(targs[i])
        can_fold_enum == \A i \in 1..n : folded_enum(targs[i])
        can_fold_str  == \A i \in 1..n :
                            targs[i].kind = "T_LITERAL" /\ targs[i].subkind = "L_STRING"
        Returns(r) == /\ FcallReturns(c, <<r>> \o v, depth, top, result)
                      /\ UNCHANGED <<pc, fcall, ret, failed, exit, pushes, pops, lastCase>>
    IN  IF builtin \in {"mulri", "mulir", "divri"}
        THEN IF UniversalFolds(builtin, targs)
             THEN Returns(eval_fcall_universal(t, builtin, targs))
             ELSE Abort
        ELSE IF can_fold_int
        THEN IF IntUndefined(builtin, iargs)
             THEN \/ Abort
                  \/ Returns(eval_fcall_int_notrap(t, builtin, iargs))
             ELSE Returns(eval_fcall_int(t, builtin, iargs, n))
        ELSE IF can_fold_log THEN Returns(eval_fcall_log(t, builtin, bargs))
        ELSE IF can_fold_real THEN Returns(eval_fcall_real(t, builtin, iargs))
        ELSE IF can_fold_enum THEN Returns(eval_fcall_enum(t, builtin, iargs, n))
        ELSE IF can_fold_str THEN Returns(eval_fcall_str(t, builtin, targs))
        ELSE Returns(t)

\* eval_fcall for a built-in operator: evaluate the arguments, then reduce
EvalFcallBuiltin ==
    /\ pc = "run"
    /\ ctl # <<>>
    /\ IF K.op = "expr" /\ K.t.kind = "T_FCALL"
       THEN /\ FuncDecl(K.t.ref).builtin # NULL
            /\ Go(<<ExprT(K.t.params[1]),
                    [op |-> "fcall_targs", t |-> K.t, i |-> 1, targs |-> <<>>,
                     depth |-> Len(top)]>> \o Rest, vals)
       ELSE /\ K.op = "fcall_targs"
            /\ LET targs == Append(K.targs, Head(vals))
               IN  IF K.i < Len(K.t.params)
                   THEN Go(<<ExprT(K.t.params[K.i + 1]),
                             [K EXCEPT !.i = K.i + 1, !.targs = targs]>> \o Rest, Tail(vals))
                   ELSE Reduce(K.t, FuncDecl(K.t.ref).builtin, targs, Rest, Tail(vals), K.depth)

\* ------------------------------------------------------------------------
\* Statements
\* ------------------------------------------------------------------------

Halted == failed \/ result # NullTree \/ exit # NULL

\* eval_stmts: run the statements in order, stop once a marker is set
EvalStmts ==
    /\ At("stmts")
    /\ IF K.i > 1 /\ Halted THEN Go(Rest, vals)
       ELSE IF K.i > Len(K.list) THEN Go(Rest, vals)
       ELSE Go(<<StmtT(K.list[K.i]), [K EXCEPT !.i = K.i + 1]>> \o Rest, vals)

\* eval_stmt, default case
EvalStmt ==
    /\ At("stmt")
    /\ K.t.kind \notin {"T_RETURN", "T_WHILE", "T_FOR", "T_IF", "T_VAR_ASSIGN",
                        "T_BLOCK", "T_EXIT", "T_CASE"}
    /\ EvalError(Rest, vals)

EvalReturn ==
    /\ pc = "run"
    /\ ctl # <<>>
    /\ IF K.op = "stmt" /\ K.t.kind = "T_RETURN"
       THEN IF result # NullTree THEN Abort
            ELSE Go(<<ExprT(K.t.value), [op |-> "return", t |-> K.t]>> \o Rest, vals)
       ELSE /\ K.op = "return"
            /\ result' = Head(vals)
            /\ ctl' = Rest
            /\ vals' = Tail(vals)
            /\ UNCHANGED <<pc, fcall, ret, top, failed, exit, pushes, pops, lastFcall, lastCase>>
            /\ UNCHANGED <<boundsVars, vhpiVars, hostVars>>

EvalIf ==
    /\ pc = "run"
    /\ ctl # <<>>
    /\ IF K.op = "stmt" /\ K.t.kind = "T_IF"
       THEN Go(<<ExprT(K.t.value), [op |-> "if", t |-> K.t]>> \o Rest, vals)
       ELSE /\ K.op = "if"
            /\ LET cond == Head(vals)
               IN  IF ~folded_bool(cond) THEN EvalError(Rest, Tail(vals))
                   ELSE IF bool_val(cond)
                   THEN Go(<<StmtsT(K.t.stmts)>> \o Rest, Tail(vals))
                   ELSE Go(<<StmtsT(K.t.else_stmts)>> \o Rest, Tail(vals))

\* if (cmp = value_int): an assignment in place of the comparison
CaseMatch_assign(cmp, value_int) == value_int # 0

\* the comparison of a named choice with the scrutinee
CaseMatch(cmp, value_int) == cmp = value_int

\* eval_case returns: record what it ran
CaseReturns(c, v, k, ran) ==
    /\ ctl' = c
    /\ vals' = v
    /\ lastCase' = [n |-> lastCase.n + 1, t |-> k.t, v |-> k.value_int, ran |-> ran]
    /\ UNCHANGED <<pc, fcall, ret, top, failed, exit, result, pushes, pops, lastFcall>>
    /\ UNCHANGED <<boundsVars, vhpiVars, hostVars>>

\* the loop of eval_case from association i on
CaseLoop(k, c, v) ==
    IF k.i > Len(k.t.assocs) THEN CaseReturns(c, v, k, k.ran)
    ELSE LET a == k.t.assocs[k.i]
         IN  IF a.subkind = "A_NAMED"
             THEN Go(<<ExprT(a.name), [k EXCEPT !.op = "case_cmp"]>> \o c, v)
             ELSE IF a.subkind = "A_OTHERS"
             THEN Go(<<StmtT(a.value),
                       [k EXCEPT !.op = "case_next", !.ran = Append(k.ran, k.i)]>> \o c, v)
             ELSE Abort

EvalCase ==
    /\ pc = "run"
    /\ ctl # <<>>
    /\ IF K.op = "stmt" /\ K.t.kind = "T_CASE"
       THEN IF type_is_array(K.t.value.type) THEN EvalError(Rest, vals)
            ELSE Go(<<ExprT(K.t.value), [op |-> "case_value", t |-> K.t]>> \o Rest, vals)
       ELSE IF K.op = "case_value"
       THEN IF ~folded_int(Head(vals)) THEN EvalError(Rest, Tail(vals))
            ELSE CaseLoop([op |-> "case", t |-> K.t, i |-> 1, value_int |-> Head(vals).ival,
                           ran |-> <<>>], Rest, Tail(vals))
       ELSE IF K.op = "case_cmp"
       THEN LET cmp == Head(vals)
            IN  IF ~folded_int(cmp) THEN EvalError(Rest, Tail(vals))
                ELSE IF CaseMatch(cmp.ival, K.value_int)
                THEN CaseReturns(<<StmtT(K.t.assocs[K.i].value)>> \o Rest, Tail(vals), K,
                                 Append(K.ran, K.i))
                ELSE CaseLoop([K EXCEPT !.i = K.i + 1], Rest, Tail(vals))
       ELSE /\ K.op = "case_next"
            /\ CaseLoop([K EXCEPT !.i = K.i + 1], Rest, vals)

\* eval_while after the condition is known: leave, hit the limit, or run the body
WhileTest(k, cond_b, c, v) ==
    IF ~cond_b \/ failed THEN Go(c, v)
    ELSE IF k.iters + 1 = MAX_ITERS THEN SetFailed(c, v, 1)
    ELSE Go(<<StmtsT(k.t.stmts),
              [k EXCEPT !.op = "while_exit", !.iters = k.iters + 1, !.nbody = k.nbody + 1]>>
            \o c, v)

\* the head of the loop of eval_while
WhileHead(k, c, v) ==
    IF result # NullTree THEN Go(c, v)
    ELSE IF k.t.has_value
    THEN Go(<<ExprT(k.t.value), [k EXCEPT !.op = "while_cond"]>> \o c, v)
    ELSE WhileTest(k, TRUE, c, v)

\* eval_while with a loop that clears whatever exit marker ends it
EvalWhile_clears ==
    /\ pc = "run"
    /\ ctl # <<>>
    /\ IF K.op = "stmt" /\ K.t.kind = "T_WHILE"
       THEN WhileHead([op |-> "while", t |-> K.t, iters |-> 0, nbody |-> 0], Rest, vals)
       ELSE IF K.op = "while_cond"
       THEN IF ~folded_bool(Head(vals)) THEN EvalError(Rest, Tail(vals))
            ELSE WhileTest(K, bool_val(Head(vals)), Rest, Tail(vals))
       ELSE /\ K.op = "while_exit"
            /\ IF exit # NULL
               THEN /\ exit' = NULL
                    /\ ctl' = Rest
                    /\ UNCHANGED <<pc, fcall, ret, top, failed, result, vals, pushes, pops,
                                   lastFcall, lastCase>>
                    /\ UNCHANGED <<boundsVars, vhpiVars, hostVars>>
               ELSE WhileHead(K, Rest, vals)

EvalWhile ==
    /\ pc = "run"
    /\ ctl # <<>>
    /\ IF K.op = "stmt" /\ K.t.kind = "T_WHILE"
       THEN WhileHead([op |-> "while", t |-> K.t, iters |-> 0, nbody |-> 0], Rest, vals)
       ELSE IF K.op = "while_cond"
       THEN IF ~folded_bool(Head(vals)) THEN EvalError(Rest, Tail(vals))
            ELSE WhileTest(K, bool_val(Head(vals)), Rest, Tail(vals))
       ELSE /\ K.op = "while_exit"
            /\ IF exit # NULL
               THEN /\ exit' = IF exit = K.t.ident THEN NULL ELSE exit
                    /\ ctl' = Rest
                    /\ UNCHANGED <<pc, fcall, ret, top, failed, result, vals, pushes, pops,
                                   lastFcall, lastCase>>
                    /\ UNCHANGED <<boundsVars, vhpiVars, hostVars>>
               ELSE WhileHead(K, Rest, vals)

\* the model follows a for loop for at most ForLimit executions of its body
ForLimit == MaxArg + 2

\* one iteration of the do-while of eval_for: bind the identifier, run the body
ForIter(k, c, v) ==
    LET name == k.t.decls[1]
    IN  IF BindAsserts(top, name) THEN Abort
        ELSE Bind(<<StmtsT(k.t.stmts), k>> \o c, v,
                  vtable_bind(top, name, get_int_lit(k.left, k.ival)))

EvalFor ==
    /\ pc = "run"
    /\ ctl # <<>>
    /\ IF K.op = "stmt" /\ K.t.kind = "T_FOR"
       THEN IF K.t.range.kind \notin {"RANGE_TO", "RANGE_DOWNTO"} THEN SetFailed(Rest, vals, 0)
            ELSE Go(<<ExprT(K.t.range.left), ExprT(K.t.range.right),
                      [op |-> "for_range", t |-> K.t]>> \o Rest, vals)
       ELSE IF K.op = "for_range"
       THEN LET right == vals[1]
                left  == vals[2]
                v     == Tail(Tail(vals))
            IN  IF ~folded_int(left) \/ ~folded_int(right) THEN SetFailed(Rest, v, 0)
                ELSE IF \/ K.t.range.kind = "RANGE_TO" /\ left.ival > right.ival
                        \/ K.t.range.kind = "RANGE_DOWNTO" /\ right.ival < left.ival
                THEN Go(Rest, v)
                ELSE ForIter([op |-> "for", t |-> K.t, left |-> left, ival |-> left.ival,
                              righti |-> right.ival, nbody |-> 1], Rest, v)
       ELSE /\ K.op = "for"
            /\ IF K.ival = K.righti THEN Go(Rest, vals)
               ELSE LET ival == K.ival + (IF K.t.range.kind = "RANGE_TO" THEN 1 ELSE -1)
                    IN  IF result = NullTree
                        THEN /\ K.nbody < ForLimit
                             /\ ForIter([K EXCEPT !.ival = ival, !.nbody = K.nbody + 1], Rest, vals)
                        ELSE Go(Rest, vals)

EvalVarAssign ==
    /\ pc = "run"
    /\ ctl # <<>>
    /\ IF K.op = "stmt" /\ K.t.kind = "T_VAR_ASSIGN"
       THEN IF K.t.target.kind # "T_REF" THEN EvalError(Rest, vals)
            ELSE Go(<<ExprT(K.t.value), [op |-> "var_assign", t |-> K.t]>> \o Rest, vals)
       ELSE /\ K.op = "var_assign"
            /\ LET updated == Head(vals)
               IN  IF ~folded(updated) THEN EvalError(Rest, Tail(vals))
                   ELSE IF BindAsserts(top, K.t.target.ident) THEN Abort
                   ELSE Bind(Rest, Tail(vals), vtable_bind(top, K.t.target.ident, updated))

EvalBlock ==
    /\ AtStmt("T_BLOCK")
    /\ IF K.t.decls # 0 THEN Abort
       ELSE Go(<<StmtsT(K.t.stmts)>> \o Rest, vals)

EvalExit ==
    /\ pc = "run"
    /\ ctl # <<>>
    /\ IF K.op = "stmt" /\ K.t.kind = "T_EXIT" /\ K.t.has_value
       THEN Go(<<ExprT(K.t.value), [op |-> "exit", t |-> K.t]>> \o Rest, vals)
       ELSE /\ \/ K.op = "stmt" /\ K.t.kind = "T_EXIT"
               \/ K.op = "exit"
            /\ LET v    == IF K.op = "exit" THEN Tail(vals) ELSE vals
                   cond == IF K.op = "exit" THEN Head(vals) ELSE BoolRef(TRUE)
               IN  IF ~folded_bool(cond) THEN EvalError(Rest, v)
                   ELSE IF ~bool_val(cond) THEN Go(Rest, v)
                   ELSE /\ exit' = K.t.ident2
                        /\ ctl' = Rest
                        /\ vals' = v
                        /\ UNCHANGED <<pc, fcall, ret, top, failed, result, pushes, pops,
                                       lastFcall, lastCase>>
                        /\ UNCHANGED <<boundsVars, vhpiVars, hostVars>>

\* ------------------------------------------------------------------------
\* The call trees eval is applied to
\* ------------------------------------------------------------------------

ArgRange == (-1)..MaxArg

SmallInts == (-2)..2

Foo == <<"f", "o", "o">>

Strings == {Hello, Foo, <<"h", "e", "l", "l">>, <<"h", "e", "l", "l", "p">>, <<>>}

Bit(pos) == EnumRef("bit", IF pos = 0 THEN "'0'" ELSE "'1'", pos)

\* 5.5
Real5_5 == RealLit(5 * RealDen + RealDen \div 2)

IntFunctions ==
    {"add1", "add4", "log2", "case1", "caserange", "casedup", "blockdecl", "blockok",
     "unsup", "failfor", "callfail", "sumto", "untilx", "useconst",
     "ifu", "whileu", "exitu", "caseu", "casearr", "casenameu", "forexpr", "foru",
     "assignarr", "assignu", "forexit", "noret", "upto", "downfrom", "nested",
     "readr", "callreadr"}

IntBinary == {"add", "sub", "mul", "div", "mod", "rem", "exp", "min", "max",
              "eq", "neq", "lt", "leq", "gt", "geq"}

LogBinary == {"and", "nand", "or", "nor", "xor", "xnor", "eq", "neq"}

RealBinary == {"add", "sub", "mul", "div", "eq", "neq", "lt", "gt"}

Comparisons == {"eq", "neq", "lt", "leq", "gt", "geq", "aeq", "aneq"}

ResultType(op, ty) == IF op \in Comparisons THEN "boolean" ELSE ty

UserCalls ==
    {Fcall(f, <<IntLit(x)>>, "integer") : f \in IntFunctions, x \in ArgRange}
    \cup {Fcall("count", <<IntLit(x)>>, "integer") : x \in (MAX_ITERS - 2)..(MAX_ITERS + 1)}
    \cup {Fcall("sumdown", <<IntLit(x)>>, "integer") : x \in 1..3}
    \cup {Fcall("chain2", <<StrLit(x), StrLit(y)>>, "boolean") : x \in Strings, y \in Strings}
    \cup {Fcall("adddef", <<IntLit(5), IntLit(5)>>, "integer"),
          Fcall("bind16", <<>>, "integer"),
          Fcall("bind17", <<>>, "integer"),
          Fcall("add1", <<U("integer")>>, "integer"),
          Fcall("add1", <<B("add", <<IntLit(1), U("integer")>>, "integer")>>, "integer"),
          Fcall("log2", <<TypeConv(Real5_5, "integer")>>, "integer"),
          Fcall("toint", <<Real5_5>>, "integer"),
          Fcall("toint", <<RealLit(-(RealDen + 1))>>, "integer"),
          Fcall("toint", <<B("div", <<RealLit(RealDen), RealLit(0)>>, "real")>>, "integer"),
          Fcall("toint", <<IntLit(1)>>, "integer"),
          Fcall("toreal", <<IntLit(3)>>, "real"),
          Fcall("tostr", <<IntLit(1)>>, "string"),
          Fcall("bitid", <<Bit(1)>>, "bit")}

BuiltinCalls ==
    {B(op, <<IntLit(a), IntLit(b)>>, ResultType(op, "integer")) :
        op \in IntBinary, a \in SmallInts, b \in SmallInts}
    \cup {B(op, <<IntLit(a)>>, "integer") : op \in {"neg", "identity"}, a \in SmallInts}
    \cup {B(op, <<IntLit(a), IntLit(b), IntLit(c)>>, "integer") :
             op \in {"min", "max"}, a \in 0..1, b \in 0..1, c \in 0..1}
    \cup {B(op, <<BoolRef(a), BoolRef(b)>>, "boolean") :
             op \in LogBinary \cup {"min", "lt"}, a \in BOOLEAN, b \in BOOLEAN}
    \cup {B("not", <<BoolRef(a)>>, "boolean") : a \in BOOLEAN}
    \cup {B(op, <<RealLit(a), RealLit(b)>>, ResultType(op, "real")) :
             op \in RealBinary \cup {"leq"}, a \in SmallInts, b \in SmallInts}
    \cup {B(op, <<RealLit(a)>>, "real") : op \in {"neg", "identity"}, a \in SmallInts}
    \cup {B(op, <<Bit(a), Bit(b)>>, ResultType(op, "bit")) :
             op \in {"min", "max", "eq", "neq", "lt", "leq", "gt", "geq"},
             a \in 0..1, b \in 0..1}
    \cup {B(op, <<StrLit(x), StrLit(y)>>, ResultType(op, "string")) :
             op \in {"aeq", "aneq", "eq"}, x \in Strings, y \in Strings}
    \cup {B(op, <<RealLit(a), IntLit(b)>>, "real") :
             op \in {"mulri", "divri", "add"}, a \in SmallInts, b \in SmallInts}
    \cup {B(op, <<IntLit(a), RealLit(b)>>, "real") :
             op \in {"mulir", "mulri"}, a \in SmallInts, b \in SmallInts}
    \cup {B(op, <<U("integer"), IntLit(1)>>, "integer") : op \in {"add", "mulir"}}
    \cup {B("add", <<ConstRef("C2", "integer"), Aggregate("string")>>, "integer"),
          B("add", <<ConstRef("C2", "integer"), ConstRef("C3", "integer")>>, "integer")}

Calls == UserCalls \cup BuiltinCalls

\* ------------------------------------------------------------------------
\* The evaluator
\* ------------------------------------------------------------------------

\* the host calls eval on one of the call trees
EvalCall ==
    /\ pc = "idle"
    /\ \E c \in Calls : Eval(c)

Next ==
    \/ EvalCall
    \/ EvalReturnValue
    \/ EvalExpr
    \/ EvalRef
    \/ EvalTypeConv
    \/ EvalFcall
    \/ EvalFuncBody
    \/ EvalFcallResult
    \/ EvalFcallBuiltin
    \/ EvalStmts
    \/ EvalStmt
    \/ EvalReturn
    \/ EvalIf
    \/ EvalCase
    \/ EvalWhile
    \/ EvalFor
    \/ EvalVarAssign
    \/ EvalBlock
    \/ EvalExit

Spec == Init /\ [][Next]_vars

\* ------------------------------------------------------------------------
\* eval called again and again by one host, which may be started anew
\* ------------------------------------------------------------------------

HostCalls ==
    {Fcall("log2", <<IntLit(5)>>, "integer"),
     Fcall("add1", <<U("integer")>>, "integer"),
     Fcall("case1", <<IntLit(2)>>, "integer"),
     Fcall("blockok", <<IntLit(1)>>, "integer"),
     Fcall("forexit", <<IntLit(2)>>, "integer"),
     Fcall("untilx", <<IntLit(1)>>, "integer"),
     Fcall("whileu", <<IntLit(1)>>, "integer"),
     Fcall("unsup", <<IntLit(1)>>, "integer"),
     Fcall("assignu", <<IntLit(1)>>, "integer"),
     Fcall("noret", <<IntLit(1)>>, "integer"),
     Fcall("callfail", <<IntLit(1)>>, "integer"),
     Fcall("toint", <<Real5_5>>, "integer"),
     Fcall("chain2", <<StrLit(Hello), StrLit(Foo)>>, "boolean"),
     B("div", <<IntLit(1), IntLit(0)>>, "integer")}

\* the host calls eval, for the first time or after an eval has returned
EvalHost ==
    /\ pc \in {"idle", "done"}
    /\ \E c \in HostCalls : Eval(c)

\* the process is started anew: the statics have their initial values
Restart ==
    /\ pc = "done"
    /\ have_debug
    /\ debug' = TRUE
    /\ have_debug' = FALSE
    /\ UNCHANGED <<evalVars, boundsVars, vhpiVars, warnings, seen>>

HostNext ==
    \/ EvalHost
    \/ Restart
    \/ EvalReturnValue
    \/ EvalExpr
    \/ EvalRef
    \/ EvalTypeConv
    \/ EvalFcall
    \/ EvalFuncBody
    \/ EvalFcallResult
    \/ EvalFcallBuiltin
    \/ EvalStmts
    \/ EvalStmt
    \/ EvalReturn
    \/ EvalIf
    \/ EvalCase
    \/ EvalWhile
    \/ EvalFor
    \/ EvalVarAssign
    \/ EvalBlock
    \/ EvalExit

HostSpec == Init /\ [][HostNext]_vars

\* ------------------------------------------------------------------------
\* The bounds checker: trees and types
\*   T_ARRAY_REF   value = the array, params = the values of the indices
\*   T_ARRAY_SLICE value = the array, range = the range of the slice
\*   an array      kind (T_REF when it has a name), ident, has_type, type
\*   an array type unconstrained, dims = one range per dimension
\*   a range       kind, left, right (expression nodes)
\* ------------------------------------------------------------------------

RANGE_TO == "RANGE_TO"

RANGE_DOWNTO == "RANGE_DOWNTO"

RANGE_EXPR == "RANGE_EXPR"

Range(k, l, r) == [kind |-> k, left |-> l, right |-> r]

ArrayType(u, ds) == [unconstrained |-> u, dims |-> ds]

ArrayValue(k, id, ht, ty) == [kind |-> k, ident |-> id, has_type |-> ht, type |-> ty]

ArrayRef(v, ps) == [kind |-> "T_ARRAY_REF", value |-> v, params |-> ps]

ArraySlice(v, r) == [kind |-> "T_ARRAY_SLICE", value |-> v, range |-> r]

tree_has_type(t) == t.has_type

type_is_unconstrained(ty) == ty.unconstrained

\* dimensions are numbered from 0
type_dim(ty, i) == ty.dims[i + 1]

elide_bounds_i == "elide_bounds"

RECURSIVE tree_find_attr(_, _, _)
\* the position of the attribute called name in the attributes a, from j on; 0 if none
tree_find_attr(a, name, j) ==
    IF j > Len(a) THEN 0
    ELSE IF a[j].name = name THEN j
    ELSE tree_find_attr(a, name, j + 1)

\* the attributes a of a node after tree_add_attr_int(t, name, n)
tree_add_attr_int(a, name, n) ==
    LET j == tree_find_attr(a, name, 1) IN
    IF j = 0 THEN Append(a, [name |-> name, ival |-> n])
    ELSE [a EXCEPT ![j].ival = n]

\* ------------------------------------------------------------------------
\* The bounds checker.  A check works on a record st that holds the error
\* counter and the diagnostics; the action that runs the check stores them.
\* ------------------------------------------------------------------------

\* errors++; error_at(tree_loc(t), ...): loc is the position of t in the tree
bounds_error(st, loc, msg) ==
    [st EXCEPT !.errors = @ + 1, !.diag = Append(@, [loc |-> loc, msg |-> msg])]

\* the name printed for an array: its identifier if it is a T_REF
ArrayName(value) == IF value.kind = "T_REF" THEN value.ident ELSE NULL

RangeLow_left(b) == b.left.ival

RangeLow(b) == IF b.kind = RANGE_TO THEN b.left.ival ELSE b.right.ival

RangeHigh(b) == IF b.kind = RANGE_TO THEN b.right.ival ELSE b.left.ival

RangeDir(b) == IF b.kind = RANGE_TO THEN "to" ELSE "downto"

RECURSIVE ArrayRefLoop(_, _, _, _)
\* the for loop of bounds_check_array_ref from parameter i on; st also counts nstatic
ArrayRefLoop(t, loc, i, st) ==
    IF i >= Len(t.params) THEN st
    ELSE
        LET p == t.params[i + 1]
            b == type_dim(t.value.type, i)
        IN  IF ~folded_int(p) THEN ArrayRefLoop(t, loc, i + 1, st)
            ELSE IF b.kind # RANGE_TO /\ b.kind # RANGE_DOWNTO
                 THEN ArrayRefLoop(t, loc, i + 1, st)
            ELSE IF folded_int(b.left) /\ folded_int(b.right)
                 THEN LET index == p.ival
                          low   == RangeLow(b)
                          high  == RangeHigh(b)
                      IN  IF index < low \/ index > high
                          THEN ArrayRefLoop(t, loc, i + 1,
                                   bounds_error(st, loc,
                                       [what |-> "array index", name |-> ArrayName(t.value),
                                        index |-> index, left |-> b.left.ival,
                                        dir |-> RangeDir(b), right |-> b.right.ival]))
                          ELSE ArrayRefLoop(t, loc, i + 1, [st EXCEPT !.nstatic = @ + 1])
            ELSE ArrayRefLoop(t, loc, i + 1, st)

\* the first run on a tree takes the tree as the front ends left it
NoAttrs(t) == [i \in 1..Len(t) |-> <<>>]

\* tree_visit is at a node of kind k
AtNode(k) == bpc = "visit" /\ visit <= Len(tree) /\ tree[visit].kind = k

\* the kinds bounds_visit_fn has a check for
CheckedKinds ==
    {"T_PCALL", "T_FCALL", "T_ARRAY_REF", "T_ARRAY_SLICE", "T_AGGREGATE", "T_SIGNAL_DECL",
     "T_CONST_DECL", "T_VAR_DECL", "T_SIGNAL_ASSIGN", "T_VAR_ASSIGN", "T_CASE", "T_LITERAL",
     "T_TYPE_CONV", "T_ATTR_REF"}

\* the check of the node returns and tree_visit goes on to the next node
VisitedCase(st, a, cv) ==
    /\ errors' = st.errors
    /\ diag' = st.diag
    /\ attrs' = a
    /\ visit' = visit + 1
    /\ cover' = cv
    /\ UNCHANGED <<bpc, tree, runs, before, first>>
    /\ UNCHANGED <<evalVars, hostVars, vhpiVars>>

Visited(st, a) == VisitedCase(st, a, cover)

\* an assert of the checker fails: the process ends
BoundsAbort ==
    /\ bpc' = "aborted"
    /\ UNCHANGED <<tree, visit, attrs, errors, diag, runs, before, first, cover>>
    /\ UNCHANGED <<evalVars, hostVars, vhpiVars>>

BoundsCheckTree_resets(t, a) ==
    /\ tree' = t
    /\ attrs' = a
    /\ visit' = 1
    /\ bpc' = "visit"
    /\ before' = 0
    /\ diag' = <<>>
    /\ errors' = 0
    /\ UNCHANGED <<runs, first, cover>>
    /\ UNCHANGED <<evalVars, hostVars, vhpiVars>>

\* bounds_check(top): tree_visit starts at the first node
BoundsCheckTree(t, a) ==
    /\ tree' = t
    /\ attrs' = a
    /\ visit' = 1
    /\ bpc' = "visit"
    /\ before' = errors
    /\ diag' = <<>>
    /\ UNCHANGED <<errors, runs, first, cover>>
    /\ UNCHANGED <<evalVars, hostVars, vhpiVars>>

BoundsCheckArrayRef ==
    /\ AtNode("T_ARRAY_REF")
    /\ LET t     == tree[visit]
           value == t.value
           st0   == [errors |-> errors, diag |-> diag, nstatic |-> 0]
       IN  IF ~tree_has_type(value) THEN Visited(st0, attrs)
           ELSE IF type_is_unconstrained(value.type) THEN Visited(st0, attrs)
           ELSE LET st == ArrayRefLoop(t, visit, 0, st0) IN
                IF st.nstatic = Len(t.params)
                THEN Visited(st, [attrs EXCEPT ![visit] = tree_add_attr_int(@, elide_bounds_i, 1)])
                ELSE Visited(st, attrs)

\* the values a variable that was never assigned can hold
Indeterminate == {0, 1}

\* the values of an out-parameter of folded_int: assigned only if the node folds
Stored(t) == IF folded_int(t) THEN {t.ival} ELSE Indeterminate

BoundsCheckArraySlice ==
    /\ AtNode("T_ARRAY_SLICE")
    /\ LET t     == tree[visit]
           value == t.value
           st0   == [errors |-> errors, diag |-> diag]
       IN  IF ~tree_has_type(value) THEN Visited(st0, attrs)
           ELSE IF type_is_unconstrained(value.type) THEN Visited(st0, attrs)
           ELSE
               LET b == type_dim(value.type, 0)
                   r == t.range
               IN  IF b.kind # RANGE_TO /\ b.kind # RANGE_DOWNTO THEN Visited(st0, attrs)
                   ELSE IF r.kind # RANGE_TO /\ r.kind # RANGE_DOWNTO THEN Visited(st0, attrs)
                   ELSE
                       LET left_error ==
                               /\ folded_int(b.left) /\ folded_int(r.left)
                               /\ \/ b.kind = RANGE_TO /\ r.left.ival < b.left.ival
                                  \/ b.kind = RANGE_DOWNTO /\ r.left.ival > b.left.ival
                           right_error ==
                               /\ folded_int(b.right) /\ folded_int(r.right)
                               /\ \/ b.kind = RANGE_TO /\ r.right.ival > b.right.ival
                                  \/ b.kind = RANGE_DOWNTO /\ r.right.ival < b.right.ival
                       IN  IF left_error \/ right_error
                           THEN \E b_left \in Stored(b.left), b_right \in Stored(b.right) :
                                   Visited(bounds_error(st0, visit,
                                       [what |-> "slice", name |-> ArrayName(value),
                                        side |-> IF left_error THEN "left" ELSE "right",
                                        index |-> IF left_error THEN r.left.ival ELSE r.right.ival,
                                        left |-> b_left, dir |-> RangeDir(b),
                                        right |-> b_right]), attrs)
                           ELSE Visited(st0, attrs)

\* ------------------------------------------------------------------------
\* The bounds checker: case statements
\*   T_CASE  value = the selector (only its type matters), assocs = the
\*           choices: A_NAMED with name, A_RANGE with range, A_OTHERS
\*   an integer type has one dimension, its range
\* ------------------------------------------------------------------------

IntegerType(r) ==
    [class |-> "integer", kind |-> "T_INTEGER", unconstrained |-> FALSE, dims |-> <<r>>]

\* an enumeration type: the identifiers of its literals, by position from 0
EnumType(lits) == [class |-> "enum", kind |-> "T_ENUM", literals |-> lits, dims |-> <<>>]

\* a subtype of the enumeration type with the literals lits
EnumSubtype(lits, r) == [class |-> "enum", kind |-> "T_SUBTYPE", literals |-> lits, dims |-> <<r>>]

type_enum_literals(ty) == Len(ty.literals)

\* the identifier of type_enum_literal(base, j)
type_enum_literal(ty, j) == ty.literals[j + 1]

type_is_enum(ty) == ty.class = "enum"

type_is_integer(ty) == ty.class = "integer"

CaseStmt(ty, as) == [kind |-> "T_CASE", value |-> [type |-> ty], assocs |-> as]

Choice(n) == [subkind |-> "A_NAMED", name |-> n]

ChoiceRange(r) == [subkind |-> "A_RANGE", range |-> r]

ChoiceOthers == [subkind |-> "A_OTHERS"]

\* folded_bounds(r, &low, &high) succeeds
folded_bounds(r) ==
    /\ r.kind \in {RANGE_TO, RANGE_DOWNTO}
    /\ folded_int(r.left)
    /\ folded_int(r.right)

\* assume_int of a literal
assume_int(t) == t.ival

Interval(l, h) == [low |-> l, high |-> h]

\* the list is with the interval new linked in before position j
InsertAt(is, j, new) == SubSeq(is, 1, j - 1) \o <<new>> \o SubSeq(is, j, Len(is))

RECURSIVE bounds_case_cover(_, _, _, _, _, _)
\* bounds_case_cover(&covered, a, low, high) with the loop at interval j:
\* st holds the list (covered), the error counter and the diagnostics
bounds_case_cover(st, loc, a, low, high, j) ==
    LET is == st.covered IN
    IF j <= Len(is) /\ is[j].low <= high
    THEN LET it == is[j] IN
         IF low <= it.high /\ it.low <= high
         THEN LET rlow  == MAX(low, it.low)
                  rhigh == MIN(high, it.high)
              IN  bounds_error(st, loc, [what |-> "already covered", assoc |-> a,
                                         low |-> rlow, high |-> rhigh])
         ELSE IF high = it.low - 1
              THEN [st EXCEPT !.covered[j].low = low]
         ELSE IF low = it.high + 1
              THEN [st EXCEPT !.covered[j].high = high]
         ELSE bounds_case_cover(st, loc, a, low, high, j + 1)
    ELSE [st EXCEPT !.covered = InsertAt(is, j, Interval(low, high))]

\* the choice i of the case t makes the assert on the kind of its range fail
CaseRangeAsserts(t, i) ==
    /\ t.assocs[i].subkind = "A_RANGE"
    /\ t.assocs[i].range.kind # RANGE_TO

RECURSIVE IntegerCaseLoop(_, _, _, _, _, _)
\* the loop over the choices of an integer case, from choice i on
IntegerCaseLoop(t, loc, tlow, thigh, i, st) ==
    IF i > Len(t.assocs) THEN st
    ELSE
        LET a == t.assocs[i] IN
        IF a.subkind = "A_OTHERS"
        THEN IntegerCaseLoop(t, loc, tlow, thigh, i + 1,
                 [st EXCEPT !.have_others = TRUE, !.hist = Append(@, st.covered)])
        ELSE
            LET low  == IF a.subkind = "A_NAMED" THEN assume_int(a.name)
                        ELSE assume_int(a.range.left)
                high == IF a.subkind = "A_NAMED" THEN assume_int(a.name)
                        ELSE assume_int(a.range.right)
                st2  == IF low < tlow \/ high > thigh
                        THEN bounds_error(st, loc,
                                 [what |-> "outside bounds", assoc |-> i,
                                  value |-> IF low < tlow THEN low ELSE high,
                                  low |-> tlow, high |-> thigh])
                        ELSE bounds_case_cover(st, loc, i, low, high, 1)
            IN  IntegerCaseLoop(t, loc, tlow, thigh, i + 1,
                    [st2 EXCEPT !.hist = Append(@, st2.covered)])

RECURSIVE MissingWalk(_, _, _, _)
\* the walk over the covered list from interval j on: the missing intervals
\* formatted so far (out) and the next value expected (walk)
MissingWalk(is, j, walk, out) ==
    IF j > Len(is) THEN [walk |-> walk, out |-> out]
    ELSE MissingWalk(is, j + 1, is[j].high + 1,
                     IF is[j].low # walk THEN Append(out, Interval(walk, is[j].low - 1))
                     ELSE out)

\* the intervals listed in the error 'case choices do not cover'
MissingIntervals(is, tlow, thigh) ==
    LET w == MissingWalk(is, 1, tlow, <<>>) IN
    IF w.walk # thigh + 1 THEN Append(w.out, Interval(w.walk, thigh)) ELSE w.out

RECURSIVE EnumChoiceLoop(_, _, _, _, _, _, _)
\* the loop over the literals from position j on for the choice i called name
EnumChoiceLoop(type, loc, i, name, j, high, st) ==
    IF j > high THEN st
    ELSE EnumChoiceLoop(type, loc, i, name, j + 1, high,
             IF type_enum_literal(type, j) # name THEN st
             ELSE IF j \in st.have
             THEN bounds_error(st, loc, [what |-> "appears multiple times", assoc |-> i,
                                         name |-> name])
             ELSE [st EXCEPT !.have = @ \cup {j}])

RECURSIVE EnumCaseLoop(_, _, _, _, _, _)
\* the loop over the choices of an enumeration case, from choice i on
EnumCaseLoop(t, loc, low, high, i, st) ==
    IF i > Len(t.assocs) THEN st
    ELSE IF t.assocs[i].subkind = "A_OTHERS"
    THEN EnumCaseLoop(t, loc, low, high, i + 1, [st EXCEPT !.have_others = TRUE])
    ELSE EnumCaseLoop(t, loc, low, high, i + 1,
             EnumChoiceLoop(t.value.type, loc, i, t.assocs[i].name.ident, low, high, st))

RECURSIVE EnumMissingLoop(_, _, _, _, _)
\* the loop that reports the literals without a choice, from position i on
EnumMissingLoop(type, loc, i, high, st) ==
    IF i > high THEN st
    ELSE EnumMissingLoop(type, loc, i + 1, high,
             IF i \notin st.have /\ ~st.have_others
             THEN bounds_error(st, loc, [what |-> "missing choice",
                                         name |-> type_enum_literal(type, i)])
             ELSE st)

\* the range of an enumeration subtype makes an assert fail
EnumRangeAsserts(r) ==
    \/ r.kind # RANGE_TO
    \/ /\ r.left.kind = "T_REF" /\ r.right.kind = "T_REF"
       /\ (r.left.ref # "T_ENUM_LIT" \/ r.right.ref # "T_ENUM_LIT")

\* the enumeration branch with the positions of the base type for a subtype
BoundsCheckEnumCase_base(t) ==
    LET type == t.value.type
        st0  == [errors |-> errors, diag |-> diag, have |-> {}, have_others |-> FALSE]
        sub  == type.kind = "T_SUBTYPE"
    IN  IF sub /\ EnumRangeAsserts(type_dim(type, 0)) THEN BoundsAbort
        ELSE IF sub /\ (type_dim(type, 0).left.kind # "T_REF"
                        \/ type_dim(type, 0).right.kind # "T_REF")
        THEN Visited(st0, attrs)
        ELSE LET low  == 0
                 high == type_enum_literals(type) - 1
                 st   == EnumCaseLoop(t, visit, low, high, 1, st0)
             IN  Visited(EnumMissingLoop(type, visit, low, high, st), attrs)

\* the enumeration branch of bounds_check_case
BoundsCheckEnumCase(t) ==
    LET type == t.value.type
        st0  == [errors |-> errors, diag |-> diag, have |-> {}, have_others |-> FALSE]
        sub  == type.kind = "T_SUBTYPE"
    IN  IF sub /\ EnumRangeAsserts(type_dim(type, 0)) THEN BoundsAbort
        ELSE IF sub /\ (type_dim(type, 0).left.kind # "T_REF"
                        \/ type_dim(type, 0).right.kind # "T_REF")
        THEN Visited(st0, attrs)
        ELSE LET low  == IF sub THEN type_dim(type, 0).left.ival ELSE 0
                 high == IF sub THEN type_dim(type, 0).right.ival
                         ELSE type_enum_literals(type) - 1
                 st   == EnumCaseLoop(t, visit, low, high, 1, st0)
             IN  Visited(EnumMissingLoop(type, visit, low, high, st), attrs)

\* int64_t values that may exceed 2^31: eight bytes, least significant first
Int64(n) == [i \in 1..8 |-> IF i <= 4 THEN (n \div (256 ^ (i - 1))) % 256 ELSE 0]

INT64_MAX == [i \in 1..8 |-> IF i = 8 THEN 127 ELSE 255]

RECURSIVE Inc64From(_, _)
\* a + 1, the carry arriving at byte i
Inc64From(a, i) ==
    IF i > 8 THEN a
    ELSE IF a[i] = 255 THEN Inc64From([a EXCEPT ![i] = 0], i + 1)
    ELSE [a EXCEPT ![i] = @ + 1]

Inc64(a) == Inc64From(a, 1)

RECURSIVE Column64(_, _, _, _)
\* the sum of the products a[i] * b[k + 1 - i] from i on
Column64(a, b, k, i) ==
    IF i > k THEN 0 ELSE a[i] * b[k + 1 - i] + Column64(a, b, k, i + 1)

RECURSIVE Mul64From(_, _, _, _, _)
Mul64From(a, b, k, carry, out) ==
    IF k > 8 THEN out
    ELSE LET sum == Column64(a, b, k, 1) + carry
         IN  Mul64From(a, b, k + 1, sum \div 256, [out EXCEPT ![k] = sum % 256])

\* a * b in 64 bits
Mul64(a, b) == Mul64From(a, b, 1, 0, Int64(0))

\* a > INT32_MAX for a >= 0
GtInt32Max(a) == a[4] >= 128 \/ \E i \in 5..8 : a[i] # 0

RECURSIVE ipowLoop(_, _, _)
ipowLoop(r, x, y) ==
    IF y = 0 THEN r
    ELSE ipowLoop(IF y % 2 = 1 THEN Mul64(r, x) ELSE r, Mul64(x, x), y \div 2)

\* x to the power y
ipow(x, y) == ipowLoop(Int64(1), x, y)

\* folded_length(r, &length) succeeds with this length
folded_length(r) == MAX(RangeHigh(r) - RangeLow(r) + 1, 0)

\* an array type for the selector of a case: its element type and its range
CaseArrayType(elem, r) ==
    [class |-> "array", kind |-> "T_CARRAY", elem |-> elem, unconstrained |-> FALSE,
     dims |-> <<r>>]

RealType == [class |-> "real", kind |-> "T_REAL", dims |-> <<>>]

type_elem(ty) == ty.elem

RECURSIVE ArrayCaseLoop(_, _, _, _)
\* the loop over the choices of an array case from choice i on: the count
ArrayCaseLoop(t, expect, i, have) ==
    IF i > Len(t.assocs) THEN have
    ELSE ArrayCaseLoop(t, expect, i + 1,
             IF t.assocs[i].subkind = "A_OTHERS" THEN expect ELSE Inc64(have))

\* the array branch of bounds_check_case
BoundsCheckArrayCase(t) ==
    LET type   == t.value.type
        elem   == type_elem(type)
        st0    == [errors |-> errors, diag |-> diag]
        ranged == elem.kind \in {"T_SUBTYPE", "T_CARRAY", "T_INTEGER"}
    IN  IF ranged /\ ~folded_bounds(type_dim(elem, 0)) THEN Visited(st0, attrs)
        ELSE IF ~ranged /\ elem.kind # "T_ENUM" THEN Visited(st0, attrs)
        ELSE IF ~folded_bounds(type_dim(type, 0)) THEN Visited(st0, attrs)
        ELSE IF \E i \in 1..Len(t.assocs) : t.assocs[i].subkind = "A_RANGE" THEN BoundsAbort
        ELSE LET elemsz == IF ranged
                           THEN Inc64(Int64(RangeHigh(type_dim(elem, 0))
                                            - RangeLow(type_dim(elem, 0))))
                           ELSE Int64(type_enum_literals(elem))
                 length == folded_length(type_dim(type, 0))
                 expect == IF GtInt32Max(elemsz) THEN INT64_MAX ELSE ipow(elemsz, length)
                 have   == ArrayCaseLoop(t, expect, 1, Int64(0))
             IN  IF have # expect
                 THEN Visited(bounds_error(st0, visit,
                          [what |-> IF expect = INT64_MAX THEN "do not cover all possible values"
                                    ELSE "cover only",
                           have |-> have, expect |-> expect]), attrs)
                 ELSE Visited(st0, attrs)

BoundsCheckCase ==
    /\ AtNode("T_CASE")
    /\ LET t    == tree[visit]
           type == t.value.type
           st0  == [errors |-> errors, diag |-> diag, covered |-> <<>>,
                    have_others |-> FALSE, hist |-> <<>>]
       IN  IF type_is_enum(type) THEN BoundsCheckEnumCase(t)
           ELSE IF type.class = "array" THEN BoundsCheckArrayCase(t)
           ELSE
           /\ type_is_integer(type)
           /\ IF ~folded_bounds(type_dim(type, 0)) THEN Visited(st0, attrs)
              ELSE IF \E i \in 1..Len(t.assocs) : CaseRangeAsserts(t, i) THEN BoundsAbort
              ELSE LET r     == type_dim(type, 0)
                       tlow  == RangeLow(r)
                       thigh == RangeHigh(r)
                       st    == IntegerCaseLoop(t, visit, tlow, thigh, 1, st0)
                       miss  == MissingIntervals(st.covered, tlow, thigh)
                   IN  IF ~st.have_others /\ miss # <<>>
                       THEN VisitedCase(bounds_error(st, visit,
                                [what |-> "case choices do not cover", intervals |-> miss]),
                                attrs, st.hist)
                       ELSE VisitedCase(st, attrs, st.hist)

\* ------------------------------------------------------------------------
\* The bounds checker: declarations
\*   T_SIGNAL_DECL, T_CONST_DECL, T_VAR_DECL  type = the type of the object;
\*   the bounds of a dimension are nodes whose type is the index subtype
\* ------------------------------------------------------------------------

Decl(k, ty) == [kind |-> k, type |-> ty]

\* the type of a declared array: kind T_CARRAY or T_UARRAY
DeclArrayType(k, ds) == [class |-> "array", kind |-> k, dims |-> ds]

\* the node e as an expression of the type ty
OfType(e, ty) == [e EXCEPT !.type = ty]

type_dims(ty) == Len(ty.dims)

RECURSIVE DeclLoop(_, _, _, _)
\* the loop over the dimensions of bounds_check_decl from dimension i on
DeclLoop(type, loc, i, st) ==
    IF i >= type_dims(type) THEN st
    ELSE
        LET dim  == type_dim(type, i)
            cons == dim.left.type
        IN  IF cons.kind = "T_ENUM" THEN DeclLoop(type, loc, i + 1, st)
            ELSE
                LET bounds    == type_dim(cons, 0)
                    is_static == /\ folded_int(dim.left) /\ folded_int(bounds.left)
                                 /\ folded_int(dim.right) /\ folded_int(bounds.right)
                    is_null   == \/ dim.kind = RANGE_TO /\ dim.left.ival > dim.right.ival
                                 \/ dim.kind = RANGE_DOWNTO /\ dim.left.ival < dim.right.ival
                    st1 == IF is_static /\ ~is_null /\ dim.left.ival < bounds.left.ival
                           THEN bounds_error(st, loc, [what |-> "violates constraint", dim |-> i,
                                                       side |-> "left", index |-> dim.left.ival])
                           ELSE st
                    st2 == IF is_static /\ ~is_null /\ dim.right.ival > bounds.right.ival
                           THEN bounds_error(st1, loc, [what |-> "violates constraint", dim |-> i,
                                                        side |-> "right", index |-> dim.right.ival])
                           ELSE st1
                IN  DeclLoop(type, loc, i + 1, st2)

DeclKinds == {"T_SIGNAL_DECL", "T_CONST_DECL", "T_VAR_DECL"}

BoundsCheckDecl ==
    /\ bpc = "visit"
    /\ visit <= Len(tree)
    /\ tree[visit].kind \in DeclKinds
    /\ LET type == tree[visit].type
           st0  == [errors |-> errors, diag |-> diag]
       IN  IF type.class = "array" /\ type.kind # "T_UARRAY"
           THEN Visited(DeclLoop(type, visit, 0, st0), attrs)
           ELSE Visited(st0, attrs)

\* ------------------------------------------------------------------------
\* The bounds checker: assignments
\*   T_VAR_ASSIGN     target, value
\*   T_SIGNAL_ASSIGN  target, waveforms = the waveforms, each with its value
\*   target and value are nodes with a type
\* ------------------------------------------------------------------------

SignalAssign(tg, ws) == [kind |-> "T_SIGNAL_ASSIGN", target |-> tg, waveforms |-> ws]

Waveform(v) == [value |-> v]

\* a scalar subtype with the constraint r
ScalarSubtype(cl, r) == [class |-> cl, kind |-> "T_SUBTYPE", unconstrained |-> FALSE, dims |-> <<r>>]

type_is_record(ty) == ty.class = "record"

\* the test with the comparisons of a range with direction to for both directions
ValueOutside_to(kind, v, left, right) ==
    kind \in {RANGE_TO, RANGE_DOWNTO} /\ (v < left \/ v > right)

\* the tests of the two switch statements of bounds_check_assignment
ValueOutside(kind, v, left, right) ==
    \/ kind = RANGE_TO /\ (v < left \/ v > right)
    \/ kind = RANGE_DOWNTO /\ (v > left \/ v < right)

RECURSIVE AssignLengthLoop(_, _, _, _, _, _)
\* the loop over the dimensions of the array length check from dimension i on
AssignLengthLoop(target_type, value_type, loc, w, i, st) ==
    IF i >= type_dims(target_type) THEN st
    ELSE AssignLengthLoop(target_type, value_type, loc, w, i + 1,
             IF /\ folded_bounds(type_dim(target_type, i))
                /\ folded_bounds(type_dim(value_type, i))
                /\ folded_length(type_dim(target_type, i)) # folded_length(type_dim(value_type, i))
             THEN bounds_error(st, loc,
                      [what |-> "length does not match", wave |-> w, dim |-> i,
                       value_w |-> folded_length(type_dim(value_type, i)),
                       target_w |-> folded_length(type_dim(target_type, i))])
             ELSE st)

\* bounds_check_assignment(target, value) for the value of waveform w
bounds_check_assignment(target, value, loc, w, st) ==
    LET target_type == target.type
        value_type  == value.type
        st1 == IF /\ target_type.class = "array"
                  /\ ~type_is_unconstrained(target_type)
                  /\ ~type_is_unconstrained(value_type)
               THEN AssignLengthLoop(target_type, value_type, loc, w, 0, st)
               ELSE st
    IN  IF /\ target_type.class # "array"
           /\ ~type_is_record(target_type)
           /\ target_type.kind = "T_SUBTYPE"
        THEN LET r   == type_dim(target_type, 0)
                 st2 == IF /\ folded_int(value) /\ folded_int(r.left) /\ folded_int(r.right)
                           /\ ValueOutside(r.kind, value.ival, r.left.ival, r.right.ival)
                        THEN bounds_error(st1, loc,
                                 [what |-> "out of target bounds", wave |-> w,
                                  value |-> value.ival, left |-> r.left.ival,
                                  dir |-> RangeDir(r), right |-> r.right.ival])
                        ELSE st1
             IN  IF /\ folded_enum(value) /\ folded_enum(r.left) /\ folded_enum(r.right)
                    /\ ValueOutside(r.kind, value.ival, r.left.ival, r.right.ival)
                 THEN bounds_error(st2, loc,
                          [what |-> "out of target bounds", wave |-> w,
                           value |-> value.ident, left |-> r.left.ident,
                           dir |-> RangeDir(r), right |-> r.right.ident])
                 ELSE st2
        ELSE st1

BoundsCheckVarAssign ==
    /\ AtNode("T_VAR_ASSIGN")
    /\ Visited(bounds_check_assignment(tree[visit].target, tree[visit].value, visit, 1,
                                       [errors |-> errors, diag |-> diag]), attrs)

RECURSIVE SignalAssignLoop(_, _, _, _)
\* the loop over the waveforms of bounds_check_signal_assign from waveform i on
SignalAssignLoop(t, loc, i, st) ==
    IF i > Len(t.waveforms) THEN st
    ELSE SignalAssignLoop(t, loc, i + 1,
             bounds_check_assignment(t.target, t.waveforms[i].value, loc, i, st))

BoundsCheckSignalAssign ==
    /\ AtNode("T_SIGNAL_ASSIGN")
    /\ Visited(SignalAssignLoop(tree[visit], visit, 1, [errors |-> errors, diag |-> diag]), attrs)

\* bounds_visit_fn, default: no check for this kind of node
BoundsVisitDefault ==
    /\ bpc = "visit"
    /\ visit <= Len(tree)
    /\ tree[visit].kind \notin CheckedKinds
    /\ Visited([errors |-> errors, diag |-> diag], attrs)

\* tree_visit has visited every node: bounds_check returns
BoundsReturn ==
    /\ bpc = "visit"
    /\ visit > Len(tree)
    /\ bpc' = "done"
    /\ runs' = runs + 1
    /\ first' = IF runs = 0
                THEN [errors |-> errors - before, diag |-> diag, attrs |-> attrs, tree |-> tree]
                ELSE first
    /\ UNCHANGED <<tree, visit, attrs, errors, diag, before, cover>>
    /\ UNCHANGED <<evalVars, hostVars, vhpiVars>>

\* ------------------------------------------------------------------------
\* The trees given to bounds_check
\* ------------------------------------------------------------------------

\* number of nodes of a tree
MaxNodes == 2

\* number of times bounds_check runs on a tree
MaxRuns == 2

IndexRange == (-1)..MaxIndex

\* an integer that is not static: a reference to a generic
Generic == ConstRef("N", "integer")

To(l, r) == Range(RANGE_TO, l, r)

Downto(l, r) == Range(RANGE_DOWNTO, l, r)

Constrained(id, ds) == ArrayValue("T_REF", id, TRUE, ArrayType(FALSE, ds))

\* signal a : bit_vector(0 to 7)
ArrayA == Constrained("a", <<To(IntLit(0), IntLit(7))>>)

\* signal d : bit_vector(MaxIndex - 1 downto 0)
ArrayD == Constrained("d", <<Downto(IntLit(MaxIndex - 1), IntLit(0))>>)

\* signal m : a two-dimensional array (0 to 1, MaxIndex - 1 downto 1)
ArrayM == Constrained("m", <<To(IntLit(0), IntLit(1)), Downto(IntLit(MaxIndex - 1), IntLit(1))>>)

\* signal g : bit_vector(N to 7) and signal h : bit_vector(7 downto N)
ArrayG == Constrained("g", <<To(Generic, IntLit(7))>>)

ArrayH == Constrained("h", <<Downto(IntLit(7), Generic)>>)

\* an array whose index range is an attribute (x'range)
ArrayX == Constrained("x", <<Range(RANGE_EXPR, NullTree, NullTree)>>)

\* an unconstrained port, a value without a type, and the array a function returns
ArrayU == ArrayValue("T_REF", "u", TRUE, ArrayType(TRUE, <<To(IntLit(0), IntLit(7))>>))

ArrayNoType == ArrayValue("T_REF", "n", FALSE, NULL)

ArrayF == ArrayValue("T_FCALL", "f", TRUE, ArrayType(FALSE, <<To(IntLit(0), IntLit(7))>>))

ArrayRefs ==
    {ArrayRef(ArrayA, <<IntLit(i)>>) : i \in {7, 9}}
    \cup {ArrayRef(ArrayD, <<IntLit(i)>>) : i \in IndexRange}
    \cup {ArrayRef(ArrayM, <<IntLit(i), IntLit(j)>>) : i \in {0, 2}, j \in {1, MaxIndex}}
    \cup {ArrayRef(ArrayM, <<Generic, IntLit(0)>>), ArrayRef(ArrayD, <<Generic>>),
          ArrayRef(ArrayG, <<IntLit(9)>>), ArrayRef(ArrayX, <<IntLit(9)>>),
          ArrayRef(ArrayU, <<IntLit(9)>>), ArrayRef(ArrayNoType, <<IntLit(9)>>),
          ArrayRef(ArrayF, <<IntLit(9)>>)}

ArraySlices ==
    {ArraySlice(ArrayA, To(IntLit(1), IntLit(7))), ArraySlice(ArrayA, To(IntLit(1), IntLit(9))),
     ArraySlice(ArrayD, Downto(IntLit(MaxIndex), IntLit(0))),
     ArraySlice(ArrayG, To(IntLit(1), IntLit(9))), ArraySlice(ArrayH, Downto(IntLit(9), IntLit(1))),
     ArraySlice(ArrayU, To(IntLit(1), IntLit(9))),
     ArraySlice(ArrayX, To(IntLit(1), IntLit(9))),
     ArraySlice(ArrayA, Range(RANGE_EXPR, NullTree, NullTree)),
     ArraySlice(ArrayNoType, To(IntLit(1), IntLit(9)))}

\* signal t : bit_vector(0 to MaxIndex - 1)
ArrayT == Constrained("t", <<To(IntLit(0), IntLit(MaxIndex - 1))>>)

\* the endpoints of slices: two values on each side of the range of the array
SliceRange == (-2)..(MaxIndex + 1)

\* the slices t(l to r), t(l downto r), d(l to r), d(l downto r), null slices included
StaticSlices ==
    {ArraySlice(a, Range(k, IntLit(l), IntLit(r))) :
        a \in {ArrayT, ArrayD}, k \in {RANGE_TO, RANGE_DOWNTO}, l \in SliceRange, r \in SliceRange}

\* the index subtype of the declared arrays: integer range 0 to MaxIndex - 1
IndexSubtype == IntegerType(To(IntLit(0), IntLit(MaxIndex - 1)))

DeclRange(k, l, r) == Range(k, OfType(l, IndexSubtype), OfType(r, IndexSubtype))

\* signals with one dimension l to r or l downto r, null ranges included;
\* further a constant and a variable, an array of two dimensions, a bound
\* that is a generic, an enumeration index, an unconstrained array and a scalar
Decls ==
    {Decl("T_SIGNAL_DECL", DeclArrayType("T_CARRAY", <<DeclRange(k, IntLit(l), IntLit(r))>>)) :
        k \in {RANGE_TO, RANGE_DOWNTO}, l \in SliceRange, r \in SliceRange}
    \cup {Decl(k, DeclArrayType("T_CARRAY", <<DeclRange(RANGE_TO, IntLit(-1), IntLit(MaxIndex))>>)) :
             k \in {"T_CONST_DECL", "T_VAR_DECL"}}
    \cup {Decl("T_SIGNAL_DECL",
               DeclArrayType("T_CARRAY", <<DeclRange(RANGE_TO, IntLit(-1), IntLit(1)),
                                           DeclRange(RANGE_DOWNTO, IntLit(1), IntLit(-1))>>)),
          Decl("T_SIGNAL_DECL",
               DeclArrayType("T_CARRAY", <<DeclRange(RANGE_TO, IntLit(-1), Generic)>>)),
          Decl("T_SIGNAL_DECL",
               DeclArrayType("T_CARRAY",
                   <<Range(RANGE_TO, OfType(EnumRef("e", "x", 0), EnumType(<<"x", "y">>)),
                                     OfType(EnumRef("e", "y", 1), EnumType(<<"x", "y">>)))>>)),
          Decl("T_SIGNAL_DECL",
               DeclArrayType("T_UARRAY", <<DeclRange(RANGE_TO, IntLit(-1), IntLit(1))>>)),
          Decl("T_VAR_DECL", IntegerType(To(IntLit(0), IntLit(1))))}

\* nodes of the kinds bounds_visit_fn has no check for
OtherNodes == {VarRef("v", "integer")}

\* the sequences over S of length up to n
RECURSIVE SeqsOf(_, _)
SeqsOf(S, n) ==
    IF n = 0 THEN {<<>>}
    ELSE LET shorter == SeqsOf(S, n - 1)
         IN  shorter \cup {Append(s, x) : s \in {q \in shorter : Len(q) = n - 1}, x \in S}

\* the type of the selector of a case: integer range 0 to MaxCase
MaxCase == 2

\* number of choices of a case
MaxChoices == 3

CaseRange == 0..MaxCase

CaseType == IntegerType(To(IntLit(0), IntLit(MaxCase)))

\* point and non-null range choices within the type, and others
Choices ==
    {Choice(IntLit(n)) : n \in CaseRange}
    \cup {ChoiceRange(To(IntLit(p[1]), IntLit(p[2]))) :
             p \in {q \in CaseRange \X CaseRange : q[1] < q[2]}}
    \cup {ChoiceOthers}

\* case i is when 0 => ...; when 2 to 5 => ...; end case; over integer range 0 to 7
Case0to7 ==
    CaseStmt(IntegerType(To(IntLit(0), IntLit(7))),
             <<Choice(IntLit(0)), ChoiceRange(To(IntLit(2), IntLit(5)))>>)

CaseStmts ==
    {CaseStmt(CaseType, as) : as \in SeqsOf(Choices, MaxChoices)}
    \cup {Case0to7,
          CaseStmt(CaseType, <<Choice(IntLit(MaxCase + 1)), Choice(IntLit(-1))>>),
          CaseStmt(CaseType, <<ChoiceRange(Downto(IntLit(1), IntLit(0)))>>),
          CaseStmt(CaseType, <<Choice(IntLit(0)), ChoiceRange(To(IntLit(2), IntLit(1)))>>),
          CaseStmt(IntegerType(To(IntLit(0), Generic)), <<Choice(IntLit(0))>>)}

\* number of literals of the enumeration type of a case
MaxLits == 3

\* the identifiers of the literals
EnumLits == [i \in 1..MaxLits |-> "lit" \o ToString(i - 1)]

EnumLit(p) == EnumRef("lits", EnumLits[p + 1], p)

\* the type, and its subtype without the first literal
EnumTypes ==
    {EnumType(EnumLits), EnumSubtype(EnumLits, To(EnumLit(1), EnumLit(MaxLits - 1)))}

EnumChoices == {Choice(EnumLit(p)) : p \in 0..(MaxLits - 1)} \cup {ChoiceOthers}

\* further: a subtype whose bound is not a reference, and one with a downto range
EnumCaseStmts ==
    {CaseStmt(ty, as) : ty \in EnumTypes, as \in SeqsOf(EnumChoices, MaxChoices)}
    \cup {CaseStmt(EnumSubtype(EnumLits, To(Generic, EnumLit(1))), <<Choice(EnumLit(0))>>),
          CaseStmt(EnumSubtype(EnumLits, To(IntLit(0), EnumLit(1))), <<Choice(EnumLit(0))>>),
          CaseStmt(EnumSubtype(EnumLits, Downto(EnumLit(1), EnumLit(0))), <<Choice(EnumLit(0))>>)}

\* length of the longest array selector of a case
MaxLen == 32

BitType == EnumType(<<"'0'", "'1'">>)

INT32_MAX == 2147483647

\* arrays of bits of several lengths, arrays over small and over wide
\* integer types, and types the check returns for
CaseArrayTypes ==
    {CaseArrayType(BitType, To(IntLit(1), IntLit(n))) : n \in {0, 1, 2, MaxLen - 1, MaxLen}}
    \cup {CaseArrayType(BitType, Downto(IntLit(1), IntLit(0))),
          CaseArrayType(IntegerType(To(IntLit(0), IntLit(2))), To(IntLit(0), IntLit(1))),
          CaseArrayType(IntegerType(To(IntLit(0), IntLit(INT32_MAX - 1))), To(IntLit(1), IntLit(1))),
          CaseArrayType(IntegerType(To(IntLit(0), IntLit(INT32_MAX))), To(IntLit(1), IntLit(1))),
          CaseArrayType(IntegerType(To(IntLit(0), IntLit(INT32_MAX))), To(IntLit(1), IntLit(0))),
          CaseArrayType(IntegerType(To(IntLit(0), Generic)), To(IntLit(1), IntLit(1))),
          CaseArrayType(RealType, To(IntLit(1), IntLit(1))),
          CaseArrayType(BitType, To(IntLit(1), Generic))}

\* the choices of an array case: named choices, others as the last choice
ArrayCaseChoices ==
    {[i \in 1..n |-> Choice(StrLit(<<>>))] \o tl :
        n \in 0..MaxChoices, tl \in {<<>>, <<ChoiceOthers>>}}

ArrayCaseStmts ==
    {CaseStmt(ty, as) : ty \in CaseArrayTypes, as \in ArrayCaseChoices}
    \cup {CaseStmt(CaseArrayType(BitType, To(IntLit(1), IntLit(1))),
                   <<ChoiceRange(To(IntLit(0), IntLit(1)))>>)}

\* the scalar targets of assignments: integer subtypes of either direction,
\* with a null range, with a bound that does not fold and with a range that
\* is an expression; enumeration subtypes of either direction; an integer
\* type that is not a subtype
ScalarTargetTypes ==
    {ScalarSubtype("integer", To(IntLit(0), IntLit(MaxIndex - 1))),
     ScalarSubtype("integer", Downto(IntLit(MaxIndex - 1), IntLit(0))),
     ScalarSubtype("integer", To(IntLit(1), IntLit(0))),
     ScalarSubtype("integer", To(IntLit(0), Generic)),
     ScalarSubtype("integer", Range(RANGE_EXPR, IntLit(1), IntLit(0))),
     ScalarSubtype("enum", To(EnumLit(1), EnumLit(MaxLits - 1))),
     ScalarSubtype("enum", Downto(EnumLit(MaxLits - 2), EnumLit(0))),
     IntegerType(To(IntLit(1), IntLit(0)))}

\* the values assigned: integers, a generic, enumeration literals
AssignedValues ==
    {IntLit(v) : v \in IndexRange} \cup {Generic} \cup {EnumLit(q) : q \in 0..(MaxLits - 1)}

BitVector(r) == [class |-> "array", kind |-> "T_CARRAY", unconstrained |-> FALSE, dims |-> <<r>>]

\* one or two waveforms
WaveformLists ==
    {<<Waveform(v)>> : v \in AssignedValues}
    \cup {<<Waveform(v), Waveform(w)>> : v \in AssignedValues, w \in AssignedValues}

\* assignments to scalars, and assignments of arrays of equal and of different length
Assignments ==
    {Assign(OfType(VarRef("v", ""), ty), v) : ty \in ScalarTargetTypes, v \in AssignedValues}
    \cup {SignalAssign(OfType(VarRef("s", ""), ty), ws) :
             ty \in ScalarTargetTypes, ws \in WaveformLists}
    \cup {Assign(OfType(VarRef("v", ""), BitVector(To(IntLit(0), IntLit(1)))),
                 OfType(VarRef("w", ""), BitVector(r))) :
             r \in {Downto(IntLit(2), IntLit(1)), To(IntLit(0), IntLit(2)), To(IntLit(0), Generic)}}

BoundsNodes == ArrayRefs \cup ArraySlices \cup OtherNodes \cup {Case0to7}

Trees ==
    (SeqsOf(BoundsNodes, MaxNodes) \ {<<>>})
    \cup {<<c>> : c \in CaseStmts \cup EnumCaseStmts \cup ArrayCaseStmts}
    \cup {<<n>> : n \in StaticSlices \cup Decls \cup Assignments}

BoundsCheck ==
    /\ bpc = "idle"
    /\ \E t \in Trees : BoundsCheckTree(t, NoAttrs(t))

\* a further bounds_check of the tree the last one ran on
BoundsCheckAgain ==
    /\ bpc = "done"
    /\ runs < MaxRuns
    /\ BoundsCheckTree(tree, attrs)

BoundsNext ==
    \/ BoundsCheck
    \/ BoundsCheckAgain
    \/ BoundsCheckArrayRef
    \/ BoundsCheckArraySlice
    \/ BoundsCheckCase
    \/ BoundsCheckDecl
    \/ BoundsCheckVarAssign
    \/ BoundsCheckSignalAssign
    \/ BoundsVisitDefault
    \/ BoundsReturn

BoundsSpec == Init /\ [][BoundsNext]_vars

\* ------------------------------------------------------------------------
\* Properties of the evaluator
\* ------------------------------------------------------------------------

\* the folded_* predicate that matches a result type
FoldedAs(r, ty) ==
    CASE ty = "boolean"                -> folded_bool(r)
      [] type_kind(ty) = "T_INTEGER"   -> folded_int(r)
      [] type_kind(ty) = "T_REAL"      -> folded_real(r)
      [] type_kind(ty) = "T_ENUM"      -> folded_enum(r)
      [] OTHER                         -> r.kind = "T_LITERAL" /\ r.subkind = "L_STRING"

Arg(i) == fcall.params[i]

Returned(f) == pc = "done" /\ fcall.ref = f

\* the tasks of eval_while and eval_case that are on the call stack
Tasks(ops) == {i \in 1..Len(ctl) : ctl[i].op \in ops}

\* C1: eval(c) returns c itself or a literal for which the folded_*
\* predicate of the type of c holds
C1_ReturnsCallOrFolded ==
    pc = "done" => (ret = fcall \/ FoldedAs(ret, fcall.type))

\* C2: eval never ends the process (no failed assert, fatal error or trap)
C2_NeverAborts == pc # "aborted"

\* C3: failed, once set, stays set until eval returns, and eval then
\* returns the original call whatever result was computed
C3_FailedSticky ==
    [][(failed => failed') /\ (pc' = "done" /\ failed' => ret' = fcall')]_vars

\* a result value is held while failed is set
C3_Witness == pc = "run" /\ failed /\ result # NullTree /\ pops > 0

\* C4: eval_fcall returns with the frame stack as deep as it was on entry,
\* every push has its pop, and the stack is empty when eval returns
C4_PushMatchedByPop ==
    /\ lastFcall.entry = lastFcall.exit
    /\ pushes - pops = Len(top)
    /\ pc = "done" => top = <<>> /\ pushes = pops

\* eval returned after two function bodies ran, one of which failed
C4_Witness == pc = "done" /\ pushes > 1 /\ failed

\* C5: a while loop runs its body at most 1000 times, and fails on the
\* iteration limit exactly when it needs more than 1000 body executions
C5_LimitExactlyAbove1000 ==
    /\ \A i \in Tasks({"while", "while_cond", "while_exit"}) : ctl[i].nbody <= MAX_ITERS
    /\ Returned("count") /\ folded_int(Arg(1)) =>
          IF Arg(1).ival <= MAX_ITERS
          THEN ~failed /\ ret = IntLit(MAX(Arg(1).ival, 0))
          ELSE failed /\ ret = fcall

\* the value log2 computes: 1 for x <= 1, else the least r >= 1 with 2^r >= x
Log2(x) ==
    IF x <= 1 THEN 1
    ELSE CHOOSE r \in 1..x : 2^r >= x /\ \A q \in 1..(r - 1) : 2^q < x

\* C6: log2(x) folds to the value its body computes, add1(x) to x + 1
C6_Log2Folds ==
    /\ Returned("log2") /\ folded_int(Arg(1)) => ret = IntLit(Log2(Arg(1).ival))
    /\ Returned("add1") /\ folded_int(Arg(1)) => ret = IntLit(Arg(1).ival + 1)

\* log2(11) folded to 4
C6_Witness == Returned("log2") /\ Arg(1) = IntLit(11) /\ ret = IntLit(4)

\* the binding of name in frame d of the stack
BoundIn(d, name) == vtframe_get(SubSeq(top, d, d), 1, name)

\* C7: chain2(x, y) folds to x = "hello" or y = "hello"; an inner call
\* leaves no result and no frame behind, and r of chain2 keeps its value
\* while chain1 binds its own r
C7_NestedCalls ==
    fcall.ref = "chain2" =>
       /\ pc = "done" => ret = BoolRef(Arg(1).chars = Hello \/ Arg(2).chars = Hello)
       /\ Len(top) = 2 => BoundIn(1, "r") = BoolRef(FALSE)
       /\ lastFcall.n > 0 => lastFcall.result = NullTree /\ lastFcall.exit = lastFcall.entry
       /\ Len(top) = 1 /\ lastFcall.n \in 1..4 => BoundIn(1, "r") = BoolRef(FALSE)

\* inside chain1, which has set its own r, with "foo" and "hello" as arguments
C7_Witness ==
    /\ fcall = Fcall("chain2", <<StrLit(Foo), StrLit(Hello)>>, "boolean")
    /\ Len(top) = 2
    /\ BoundIn(2, "r") = BoolRef(TRUE)

\* the value of a choice
ChoiceValue(name) == IF name.kind = "T_REF" THEN ConstValue(name.ident).ival ELSE name.ival

\* the branch eval_case is to run for v: the first named choice equal to
\* v, or else the others choice
Branch(t, v) ==
    LET named == {i \in 1..Len(t.assocs) :
                     t.assocs[i].subkind = "A_NAMED" /\ ChoiceValue(t.assocs[i].name) = v}
        other == {i \in 1..Len(t.assocs) : t.assocs[i].subkind = "A_OTHERS"}
    IN  IF named # {} THEN CHOOSE i \in named : \A j \in named : i <= j
        ELSE CHOOSE i \in other : TRUE

\* C8: eval_case runs exactly one branch, the first named choice equal to
\* the scrutinee or else others; case1 yields 2, 3 and 5
C8_CaseRunsOneBranch ==
    /\ \A i \in Tasks({"case", "case_cmp", "case_next"}) : Len(ctl[i].ran) <= 1
    /\ lastCase.n > 0 => lastCase.ran = <<Branch(lastCase.t, lastCase.v)>>
    /\ Returned("case1") =>
          ret = IntLit(CASE Arg(1).ival = 1 -> 2 [] Arg(1).ival = 2 -> 3 [] OTHER -> 5)
    /\ Returned("casedup") =>
          ret = IntLit(CASE Arg(1).ival = 1 -> 2 [] Arg(1).ival = 3 -> 3 [] OTHER -> 5)

\* case1(7) folded to 5 through the others branch
C8_Witness ==
    /\ Returned("case1") /\ Arg(1) = IntLit(7) /\ ret = IntLit(5)
    /\ lastCase.n = 1 /\ lastCase.ran = <<3>>

\* ------------------------------------------------------------------------
\* Properties of the bounds checker
\* ------------------------------------------------------------------------

\* the diagnostics of the last bounds_check that are located at node k
ErrorsAt(k) == SelectSeq(diag, LAMBDA d : d.loc = k)

HasElide(k) == \E j \in 1..Len(attrs[k]) : attrs[k][j] = [name |-> elide_bounds_i, ival |-> 1]

\* node k is an array reference to a constrained array
ConstrainedRef(k) ==
    /\ tree[k].kind = "T_ARRAY_REF"
    /\ tree[k].value.has_type
    /\ ~tree[k].value.type.unconstrained

Indices(k) == 1..Len(tree[k].params)

\* index i of reference k folds, and so does the range of its dimension
Static(k, i) ==
    LET b == tree[k].value.type.dims[i] IN
    /\ folded_int(tree[k].params[i])
    /\ b.kind \in {RANGE_TO, RANGE_DOWNTO}
    /\ folded_int(b.left)
    /\ folded_int(b.right)

\* the index values of a dimension with a folded range
RangeSet(b) == IF b.kind = RANGE_TO THEN b.left.ival..b.right.ival ELSE b.right.ival..b.left.ival

Inside(k, i) == Static(k, i) /\ tree[k].params[i].ival \in RangeSet(tree[k].value.type.dims[i])

Outside(k, i) == Static(k, i) /\ tree[k].params[i].ival \notin RangeSet(tree[k].value.type.dims[i])

\* the diagnostic for index i of reference k
IndexError(k, i) ==
    LET b == tree[k].value.type.dims[i] IN
    [loc |-> k,
     msg |-> [what |-> "array index", name |-> ArrayName(tree[k].value),
              index |-> tree[k].params[i].ival, left |-> b.left.ival,
              dir |-> IF b.kind = RANGE_TO THEN "to" ELSE "downto", right |-> b.right.ival]]

\* C9 as stated: after bounds_check, an array reference to a constrained
\* array carries elide_bounds = 1 and has no error if every index folds and
\* lies in the folded range of its dimension; it does not carry elide_bounds
\* and has exactly one error if any index folds outside its range; it does
\* not carry elide_bounds if some index or bound does not fold.
C9_OneErrorPerReference ==
    bpc = "done" =>
        \A k \in 1..Len(tree) : ConstrainedRef(k) =>
            /\ (\A i \in Indices(k) : Inside(k, i)) => HasElide(k) /\ ErrorsAt(k) = <<>>
            /\ (\E i \in Indices(k) : Outside(k, i)) => ~HasElide(k) /\ Len(ErrorsAt(k)) = 1
            /\ (\E i \in Indices(k) : ~Static(k, i)) => ~HasElide(k)

\* C9 amended: as above, but a reference has exactly one error for each
\* index that folds outside the folded range of its dimension, in the order
\* of the indices, each naming its index and the bounds of its dimension.
C9_OneErrorPerIndex ==
    bpc = "done" =>
        \A k \in 1..Len(tree) : ConstrainedRef(k) =>
            /\ (\A i \in Indices(k) : Inside(k, i)) => HasElide(k) /\ ErrorsAt(k) = <<>>
            /\ (\E i \in Indices(k) : Outside(k, i)) =>
                  /\ ~HasElide(k)
                  /\ Len(ErrorsAt(k)) = Cardinality({i \in Indices(k) : Outside(k, i)})
                  /\ \A i \in Indices(k) : Outside(k, i) =>
                        \E j \in 1..Len(ErrorsAt(k)) : ErrorsAt(k)[j] = IndexError(k, i)
            /\ (\E i \in Indices(k) : ~Static(k, i)) => ~HasElide(k)

\* a tree was checked that has a reference with two indices outside their
\* ranges, which has two errors, and a reference that was marked
C9_Witness ==
    /\ bpc = "done"
    /\ \E k \in 1..Len(tree) :
          /\ ConstrainedRef(k)
          /\ Cardinality({i \in Indices(k) : Outside(k, i)}) = 2
          /\ Len(ErrorsAt(k)) = 2
    /\ \E k \in 1..Len(tree) :
          /\ ConstrainedRef(k)
          /\ \A i \in Indices(k) : Inside(k, i)
          /\ HasElide(k)

\* C10: a second bounds_check of a tree emits the diagnostics of the first,
\* adds as much to the error counter, and leaves the attributes and the
\* tree as the first left them.
C10_Idempotent ==
    bpc = "done" /\ runs >= 2 =>
        /\ diag = first.diag
        /\ errors - before = first.errors
        /\ attrs = first.attrs
        /\ tree = first.tree

\* the values a choice of an integer case stands for
ChoiceValues(a) ==
    IF a.subkind = "A_NAMED" THEN {a.name.ival}
    ELSE IF a.subkind = "A_RANGE" THEN a.range.left.ival..a.range.right.ival
    ELSE {}

\* node k is an integer case without others over a type with folded bounds
\* whose choices are points and non-null ranges within those bounds
IntegerCase(k) ==
    /\ tree[k].kind = "T_CASE"
    /\ tree[k].value.type.class = "integer"
    /\ folded_bounds(tree[k].value.type.dims[1])
    /\ \A i \in 1..Len(tree[k].assocs) :
          LET a == tree[k].assocs[i] IN
          /\ a.subkind # "A_OTHERS"
          /\ a.subkind = "A_RANGE" => a.range.kind = RANGE_TO
          /\ ChoiceValues(a) # {}
          /\ ChoiceValues(a) \subseteq RangeSet(tree[k].value.type.dims[1])

CoveredValues(k) == UNION {ChoiceValues(tree[k].assocs[i]) : i \in 1..Len(tree[k].assocs)}

\* the errors 'case choices do not cover' of node k
MissingErrors(k) == SelectSeq(ErrorsAt(k), LAMBDA d : d.msg.what = "case choices do not cover")

\* the intervals is partition the set of values S
Partitions(is, S) ==
    /\ \A j \in 1..Len(is) : is[j].low <= is[j].high
    /\ \A i, j \in 1..Len(is) : i # j => (is[i].low..is[i].high) \cap (is[j].low..is[j].high) = {}
    /\ UNION {is[j].low..is[j].high : j \in 1..Len(is)} = S

\* C11: the intervals of the single error 'case choices do not cover' of an
\* integer case without others are pairwise disjoint, have low <= high and
\* their union is the set of values of the type no choice covers; there is
\* no such error if every value is covered; choices 0 and 2 to 5 over
\* 0 to 7 give the intervals 1 and 6 to 7.
C11_MissingIntervalsPartition ==
    bpc = "done" =>
        \A k \in 1..Len(tree) : IntegerCase(k) =>
            LET missing == RangeSet(tree[k].value.type.dims[1]) \ CoveredValues(k) IN
            /\ missing = {} => MissingErrors(k) = <<>>
            /\ missing # {} =>
                  /\ Len(MissingErrors(k)) = 1
                  /\ Partitions(MissingErrors(k)[1].msg.intervals, missing)
            /\ tree[k] = Case0to7 =>
                  MissingErrors(k)[1].msg.intervals = <<Interval(1, 1), Interval(6, 7)>>

\* C12: the error counter never decreases and is never reset; the check of
\* a node adds exactly 1 for each diagnostic it emits; and every node of the
\* traversal is checked and counted whatever was found at the nodes before
\* it: when bounds_check returns, each array reference has the errors of
\* its own indices and the counter has grown by the number of diagnostics.
C12_CounterAdditive ==
    /\ [][/\ errors' >= errors
          /\ bpc = "visit" /\ bpc' = "visit" =>
                /\ visit' = visit + 1
                /\ errors' - errors = Len(diag') - Len(diag)
                /\ SubSeq(diag', 1, Len(diag)) = diag
          /\ bpc # "visit" \/ bpc' # "visit" => errors' = errors]_vars
    /\ [](bpc = "done" =>
            /\ visit = Len(tree) + 1
            /\ errors - before = Len(diag)
            /\ \A k \in 1..Len(tree) : ConstrainedRef(k) =>
                  Len(ErrorsAt(k)) = Cardinality({i \in Indices(k) : Outside(k, i)}))

\* bounds_check has run twice on a tree whose two nodes both have errors
C12_Witness ==
    /\ bpc = "done"
    /\ runs >= 2
    /\ Len(tree) >= 2
    /\ ErrorsAt(1) # <<>>
    /\ ErrorsAt(2) # <<>>
    /\ errors = 2 * Len(diag)

\* ------------------------------------------------------------------------
\* Properties of repeated evaluation
\* ------------------------------------------------------------------------

\* C13: every eval of a call returns what the first eval of that call
\* returned, whatever debug was in either run and whatever was evaluated in
\* between; and every eval starts without a marker and without a frame.
C13_EvalDeterministic ==
    /\ [](pc = "done" /\ fcall = seen.fcall => ret = seen.ret)
    /\ [][pc # "run" /\ pc' = "run" =>
             ~failed' /\ exit' = NULL /\ result' = NullTree /\ top' = <<>>]_vars

\* a call that folds was evaluated again with the other value of debug,
\* after an eval of another call had failed
C13_Witness ==
    /\ pc = "done"
    /\ fcall = seen.fcall
    /\ seen.again
    /\ seen.others
    /\ debug # seen.debug
    /\ ret # fcall

\* ------------------------------------------------------------------------
\* Properties of the built-in operators and the statements
\* ------------------------------------------------------------------------

\* the parameters of the call c are literals or the unbound variable, and
\* they are not all literals of one kind a reducer of c's operator takes
ArgsUnfit(c) ==
    LET ps == c.params
        n  == Len(ps)
    IN  /\ c.kind = "T_FCALL"
        /\ c.ref \in Builtins
        /\ \A i \in 1..n : folded(ps[i]) \/ ps[i] = U(ps[i].type)
        /\ IF c.ref \in {"mulri", "divri"}
           THEN ~(n = 2 /\ folded_real(ps[1]) /\ folded_int(ps[2]))
           ELSE IF c.ref = "mulir"
           THEN ~(n = 2 /\ folded_int(ps[1]) /\ folded_real(ps[2]))
           ELSE /\ \E i \in 1..n : ~folded_int(ps[i])
                /\ \E i \in 1..n : ~folded_real(ps[i])
                /\ \E i \in 1..n : ~folded_enum(ps[i])
                /\ \E i \in 1..n : ~(ps[i].kind = "T_LITERAL" /\ ps[i].subkind = "L_STRING")

\* C14: eval of a built-in operator with an argument that does not fold to
\* a literal of a kind the operator expects returns the call, and the
\* process goes on.
C14_UnfitArgsReturnCall ==
    pc \in {"done", "aborted"} /\ ArgsUnfit(fcall) => pc = "done" /\ ret = fcall

\* eval_stmts hands a statement to eval_stmt in this step
StmtStarts == At("stmts") /\ ctl' # <<>> /\ Head(ctl').op = "stmt"

\* C15: no statement is executed while failed, result or exit is set,
\* neither the next statement of a list nor a statement of a later
\* iteration of an enclosing loop.
C15_HaltsOnMarker == [][StmtStarts => ~Halted]_vars

\* the for loops that are running
ForTasks == {j \in 1..Len(ctl) : ctl[j].op = "for"}

\* C16: a for loop with folded endpoints whose body sets no marker runs its
\* body once for each value of the range, in range order, with the loop
\* identifier bound to the value (upto returns x, or 0 for a null range;
\* downfrom returns 1, or x + 1 for a null range), and no for loop runs its
\* body more than |l - r| + 1 times.
C16_ForRunsOncePerValue ==
    /\ pc = "done" /\ Returned("upto") =>
          ret = IntLit(IF Arg(1).ival >= 1 THEN Arg(1).ival ELSE 0)
    /\ pc = "done" /\ Returned("downfrom") =>
          ret = IntLit(IF Arg(1).ival >= 1 THEN 1 ELSE Arg(1).ival + 1)
    /\ \A j \in ForTasks : ctl[j].nbody <= llabs(ctl[j].left.ival - ctl[j].righti) + 1


\* C17: an exit statement that targets the enclosing for loop ends that loop:
\* no statement of a later iteration is executed, the pending exit marker is
\* cleared by the loop, and the statements after the loop run, so that the
\* return after the loop of forexit yields its folded argument
C17_ExitLeavesForLoop ==
    /\ pc = "done" /\ Returned("forexit") => ret = Arg(1)
    /\ \A j \in ForTasks : ctl[j].t.ident = "forexit_loop" => ctl[j].nbody <= 1
    /\ pc = "run" /\ exit = "forexit_loop" =>
          \E j \in ForTasks : ctl[j].t.ident = exit


WhileTasks == Tasks({"while", "while_cond", "while_exit"})

\* the loop at the head of the stack has just run its body
AfterBody == pc = "run" /\ ctl # <<>> /\ K.op = "while_exit"

\* C18: in a while loop, an exit that targets the loop stops it, the marker
\* is cleared and the statements after the loop run; an exit that names an
\* outer loop stops the inner loop with the marker kept, no statement starts
\* while the marker names a loop that is still running, and the marker is
\* cleared only by the loop of that name; an exit whose condition folds to
\* false leaves the marker as it was
C18_ExitLeavesWhileLoop ==
    /\ [](pc = "done" /\ Returned("nested") =>
             ret = IntLit(IF Arg(1).ival <= 1 THEN 1
                          ELSE IF Arg(1).ival % 2 = 1 THEN Arg(1).ival
                          ELSE Arg(1).ival + 1))
    /\ [](pc = "done" /\ Returned("untilx") =>
             ret = IntLit(IF Arg(1).ival <= 1 THEN 1 ELSE Arg(1).ival))
    /\ [][AfterBody /\ exit = K.t.ident => exit' = NULL /\ ctl' = Rest]_vars
    /\ [][AfterBody /\ exit # NULL /\ exit # K.t.ident => exit' = exit /\ ctl' = Rest]_vars
    /\ [][StmtStarts => ~\E j \in WhileTasks : ctl[j].t.ident = exit]_vars
    /\ [][exit # NULL /\ exit' = NULL => AfterBody /\ exit = K.t.ident]_vars
    /\ [][At("exit") /\ Head(vals) = BoolRef(FALSE) => exit' = exit /\ ~failed']_vars

\* nested(4) has left its inner loop twice and its outer loop once
C18_Witness ==
    /\ pc = "done" /\ Returned("nested")
    /\ Arg(1).ival = 4
    /\ ret = IntLit(5)
    /\ exit = NULL


RECURSIVE Power(_, _)
Power(a, b) == IF b = 0 THEN 1 ELSE a * Power(a, b - 1)

\* C19: exp applied to folded integers a and b folds to the integer literal
\* a**b, with 0**0 = 1, when b >= 0, and returns the call itself when b < 0,
\* whatever a is
C19_ExpFolds ==
    pc = "done" /\ Returned("exp") /\ folded_int(Arg(1)) /\ folded_int(Arg(2)) =>
        ret = IF Arg(2).ival >= 0
              THEN get_int_lit(fcall, Power(Arg(1).ival, Arg(2).ival))
              ELSE fcall


Compare(op, p, q) ==
    CASE op = "eq"  -> p = q
      [] op = "neq" -> p # q
      [] op = "lt"  -> p < q
      [] op = "leq" -> p <= q
      [] op = "gt"  -> p > q
      [] op = "geq" -> p >= q

EnumComparison ==
    /\ pc = "done"
    /\ fcall.ref \in {"eq", "neq", "lt", "leq", "gt", "geq"}
    /\ Len(fcall.params) = 2
    /\ folded_enum(Arg(1)) /\ folded_enum(Arg(2))

\* C20: eq, neq, lt, leq, gt and geq applied to two enumeration literals at
\* positions p and q fold to the boolean literal of the comparison of p and q
C20_EnumComparisons ==
    EnumComparison =>
        ret = get_bool_lit(fcall, Compare(fcall.ref, Arg(1).ival, Arg(2).ival))


\* bounds_check has run once on a single integer case of in-range choices
OneIntegerCase == bpc = "done" /\ runs = 1 /\ Len(tree) = 1 /\ IntegerCase(1)

\* the errors 'already covered' of choice i of the case
CoveredErrors(i) ==
    SelectSeq(ErrorsAt(1), LAMBDA d : d.msg.what = "already covered" /\ d.msg.assoc = i)

\* the values of the choices up to choice i that were not reported
Accepted(i) ==
    UNION {ChoiceValues(tree[1].assocs[j]) : j \in {n \in 1..i : CoveredErrors(n) = <<>>}}

\* the covered list before choice i is looked at
CoverBefore(i) == IF i = 1 THEN <<>> ELSE cover[i - 1]

IntervalsUnion(is) == UNION {is[j].low..is[j].high : j \in 1..Len(is)}

\* C21: a choice of an integer case is reported as already covered if and
\* only if it shares a value with the choices accepted before it; the range
\* reported is part of that intersection; and a reported choice leaves the
\* covered list as it was
C21_AlreadyCoveredIffShared ==
    OneIntegerCase =>
        \A i \in 1..Len(tree[1].assocs) :
            LET shared == ChoiceValues(tree[1].assocs[i]) \cap Accepted(i - 1)
                errs   == CoveredErrors(i)
            IN  /\ Len(errs) = (IF shared # {} THEN 1 ELSE 0)
                /\ errs # <<>> =>
                      /\ errs[1].msg.low <= errs[1].msg.high
                      /\ errs[1].msg.low..errs[1].msg.high \subseteq shared
                      /\ cover[i] = CoverBefore(i)

\* C22: after every insertion the covered list is sorted by low, every
\* interval has low <= high, consecutive intervals p, q have
\* p.high + 1 < q.low, and the union of the list is the union of the
\* accepted choices
C22_CoveredListNormal ==
    OneIntegerCase =>
        \A i \in 1..Len(cover) :
            /\ \A j \in 1..Len(cover[i]) : cover[i][j].low <= cover[i][j].high
            /\ \A j \in 1..(Len(cover[i]) - 1) : cover[i][j].high + 1 < cover[i][j + 1].low
            /\ IntervalsUnion(cover[i]) = Accepted(i)


\* node k is a case over an enumeration type, or over a subtype of one
\* whose range is given by two of its literals
EnumCase(k) ==
    /\ tree[k].kind = "T_CASE"
    /\ tree[k].value.type.class = "enum"
    /\ tree[k].value.type.kind = "T_SUBTYPE" =>
          /\ tree[k].value.type.dims[1].kind = RANGE_TO
          /\ folded_enum(tree[k].value.type.dims[1].left)
          /\ folded_enum(tree[k].value.type.dims[1].right)

\* the positions [low, high] of the literals of the type of case k
EnumPositions(k) ==
    IF tree[k].value.type.kind = "T_SUBTYPE"
    THEN tree[k].value.type.dims[1].left.ival..tree[k].value.type.dims[1].right.ival
    ELSE 0..(Len(tree[k].value.type.literals) - 1)

\* the choices of case k that name the literal nm
NamedBy(k, nm) ==
    {i \in 1..Len(tree[k].assocs) :
        tree[k].assocs[i].subkind = "A_NAMED" /\ tree[k].assocs[i].name.ident = nm}

HasOthers(k) == \E i \in 1..Len(tree[k].assocs) : tree[k].assocs[i].subkind = "A_OTHERS"

MultipleErrors(k, i) ==
    SelectSeq(ErrorsAt(k), LAMBDA d : d.msg.what = "appears multiple times" /\ d.msg.assoc = i)

MissingChoiceErrors(k, nm) ==
    SelectSeq(ErrorsAt(k), LAMBDA d : d.msg.what = "missing choice" /\ d.msg.name = nm)

\* C23: in a case over an enumeration type or subtype with the literals at
\* [low, high], every occurrence of a literal as a choice after its first is
\* reported once as appearing multiple times; a literal no choice names has
\* exactly one 'missing choice' error if there is no others choice, and
\* none if there is one; no other error is emitted
C23_EnumCaseCoverage ==
    bpc = "done" /\ runs = 1 =>
        \A k \in 1..Len(tree) : EnumCase(k) =>
            /\ \A p \in EnumPositions(k) :
                  LET nm  == tree[k].value.type.literals[p + 1]
                      occ == NamedBy(k, nm)
                  IN  /\ \A i \in occ :
                            Len(MultipleErrors(k, i)) = (IF \E j \in occ : j < i THEN 1 ELSE 0)
                      /\ Len(MissingChoiceErrors(k, nm)) =
                            (IF occ = {} /\ ~HasOthers(k) THEN 1 ELSE 0)
            /\ \A n \in 1..Len(ErrorsAt(k)) :
                  /\ ErrorsAt(k)[n].msg.what \in {"appears multiple times", "missing choice"}
                  /\ \E p \in EnumPositions(k) :
                        ErrorsAt(k)[n].msg.name = tree[k].value.type.literals[p + 1]

\* a case over the subtype with a literal named twice and a literal not named
C23_Witness ==
    /\ bpc = "done" /\ runs = 1 /\ EnumCase(1)
    /\ tree[1].value.type.kind = "T_SUBTYPE"
    /\ \E i \in 1..Len(tree[1].assocs) : MultipleErrors(1, i) # <<>>
    /\ \E p \in EnumPositions(1) :
          MissingChoiceErrors(1, tree[1].value.type.literals[p + 1]) # <<>>


\* node k is a case over an array whose element type and length fold and
\* whose choices are named choices, with or without a last others choice
ArrayCase(k) ==
    /\ tree[k].kind = "T_CASE"
    /\ tree[k].value.type.class = "array"
    /\ tree[k].value.type.elem.kind \in {"T_INTEGER", "T_ENUM"}
    /\ tree[k].value.type.elem.kind = "T_INTEGER" => folded_bounds(tree[k].value.type.elem.dims[1])
    /\ folded_bounds(tree[k].value.type.dims[1])
    /\ \A i \in 1..Len(tree[k].assocs) : tree[k].assocs[i].subkind # "A_RANGE"

\* the size s of the alphabet of the elements
Alphabet(k) ==
    LET elem == tree[k].value.type.elem IN
    IF elem.kind = "T_ENUM" THEN Int64(Len(elem.literals))
    ELSE Inc64(Int64(elem.dims[1].right.ival - elem.dims[1].left.ival))

\* s^n
TruePower(k) == ipow(Alphabet(k), Cardinality(RangeSet(tree[k].value.type.dims[1])))

RECURSIVE Less64From(_, _, _)
Less64From(a, b, i) ==
    IF i = 0 THEN FALSE
    ELSE IF a[i] # b[i] THEN a[i] < b[i]
    ELSE Less64From(a, b, i - 1)

\* a < b for a, b >= 0
Less64(a, b) == Less64From(a, b, 8)

TwoTo31 == Inc64(Int64(INT32_MAX))

\* the required number of choices according to C24
Required(k) == IF Less64(TwoTo31, TruePower(k)) THEN INT64_MAX ELSE TruePower(k)

NamedChoices(k) == {i \in 1..Len(tree[k].assocs) : tree[k].assocs[i].subkind = "A_NAMED"}

\* C24: the required number of choices of an array case is s^n when s^n
\* does not exceed 2^31 and the sentinel when it does, and an error is
\* reported exactly when there is no others choice and the case has fewer
\* choices than s^n
C24_ArrayCaseRequired ==
    bpc = "done" /\ runs = 1 =>
        \A k \in 1..Len(tree) : ArrayCase(k) =>
            LET short == /\ ~HasOthers(k)
                         /\ Less64(Int64(Cardinality(NamedChoices(k))), TruePower(k))
            IN  /\ Len(ErrorsAt(k)) = (IF short THEN 1 ELSE 0)
                /\ ErrorsAt(k) # <<>> => ErrorsAt(k)[1].msg.expect = Required(k)


\* node k is a slice with folded endpoints of a constrained array with
\* folded bounds, in the direction of the array
StaticSlice(k) ==
    /\ tree[k].kind = "T_ARRAY_SLICE"
    /\ tree[k].value.has_type
    /\ ~tree[k].value.type.unconstrained
    /\ folded_bounds(tree[k].value.type.dims[1])
    /\ folded_bounds(tree[k].range)
    /\ tree[k].range.kind = tree[k].value.type.dims[1].kind

\* the range r has no elements
NullRange(r) ==
    \/ r.kind = RANGE_TO /\ r.left.ival > r.right.ival
    \/ r.kind = RANGE_DOWNTO /\ r.left.ival < r.right.ival

\* C25: a null slice produces no error whatever its endpoints are; a slice
\* that is not null produces exactly one error if one of its endpoints is
\* outside the range of the dimension and none if both are inside
C25_SliceErrors ==
    bpc = "done" /\ runs = 1 =>
        \A k \in 1..Len(tree) : StaticSlice(k) =>
            LET r == tree[k].range
                b == tree[k].value.type.dims[1]
            IN  Len(ErrorsAt(k)) =
                   (IF ~NullRange(r) /\ (r.left.ival \notin RangeSet(b) \/ r.right.ival \notin RangeSet(b))
                    THEN 1 ELSE 0)


\* node k declares a constrained array of one dimension with static bounds
\* over an integer index subtype with static bounds
StaticDecl(k) ==
    /\ tree[k].kind \in DeclKinds
    /\ tree[k].type.class = "array"
    /\ tree[k].type.kind = "T_CARRAY"
    /\ Len(tree[k].type.dims) = 1
    /\ folded_bounds(tree[k].type.dims[1])
    /\ tree[k].type.dims[1].left.type.class = "integer"
    /\ folded_bounds(tree[k].type.dims[1].left.type.dims[1])

\* C26: the declaration of a constrained array with a static range over an
\* index subtype with the static bounds [b_low, b_high] gets one error for
\* each endpoint of the range outside [b_low, b_high] if the range is not
\* null, and no error if it is null
C26_DeclEndpointErrors ==
    bpc = "done" /\ runs = 1 =>
        \A k \in 1..Len(tree) : StaticDecl(k) =>
            LET dim == tree[k].type.dims[1]
                in  == RangeSet(dim.left.type.dims[1])
            IN  Len(ErrorsAt(k)) =
                   (IF NullRange(dim) THEN 0
                    ELSE (IF dim.left.ival \in in THEN 0 ELSE 1)
                         + (IF dim.right.ival \in in THEN 0 ELSE 1))


\* node k assigns to a target of a scalar subtype
ScalarAssign(k) ==
    /\ tree[k].kind \in {"T_VAR_ASSIGN", "T_SIGNAL_ASSIGN"}
    /\ tree[k].target.type.class \in {"integer", "enum"}
    /\ tree[k].target.type.kind = "T_SUBTYPE"

\* the values assigned by node k, one for each waveform
ValuesOf(k) ==
    IF tree[k].kind = "T_VAR_ASSIGN" THEN <<tree[k].value>>
    ELSE [w \in 1..Len(tree[k].waveforms) |-> tree[k].waveforms[w].value]

\* the value v and the constraint r both fold, to integers or to positions
BothFold(v, r) ==
    \/ folded_int(v) /\ folded_int(r.left) /\ folded_int(r.right)
    \/ folded_enum(v) /\ folded_enum(r.left) /\ folded_enum(r.right)

\* v is outside the constraint r, in the direction of r
OutsideConstraint(v, r) ==
    \/ r.kind = RANGE_TO /\ (v.ival < r.left.ival \/ v.ival > r.right.ival)
    \/ r.kind = RANGE_DOWNTO /\ (v.ival > r.left.ival \/ v.ival < r.right.ival)

WaveErrors(k, w) == SelectSeq(ErrorsAt(k), LAMBDA d : d.msg.wave = w)

\* C27: an assignment to a target of a scalar subtype gets, for each
\* waveform on its own, exactly one error if the value and the constraint
\* fold and the value is outside the constraint in the direction of the
\* constraint, and no error otherwise
C27_AssignmentRange ==
    bpc = "done" /\ runs = 1 =>
        \A k \in 1..Len(tree) : ScalarAssign(k) =>
            \A w \in 1..Len(ValuesOf(k)) :
                LET v == ValuesOf(k)[w]
                    r == tree[k].target.type.dims[1]
                IN  Len(WaveErrors(k, w)) =
                       (IF BothFold(v, r) /\ OutsideConstraint(v, r) THEN 1 ELSE 0)

\* a signal assignment to a downto subtype whose first waveform is inside
\* the constraint and whose second waveform is outside
C27_Witness ==
    /\ bpc = "done" /\ runs = 1 /\ ScalarAssign(1)
    /\ tree[1].kind = "T_SIGNAL_ASSIGN"
    /\ tree[1].target.type.dims[1].kind = RANGE_DOWNTO
    /\ Len(tree[1].waveforms) = 2
    /\ WaveErrors(1, 1) = <<>>
    /\ Len(WaveErrors(1, 2)) = 1
    /\ errors = 1


\* the identifiers bound in the frames of tp, and one bound nowhere
BoundNames(tp) == {tp[d][e].name : <<d, e>> \in {p \in (1..Len(tp)) \X (1..VTABLE_SZ) : p[2] <= Len(tp[p[1]])}}

LookupNames(tp) == BoundNames(tp) \cup {"fresh"}

BindValues == {IntLit(7), BoolRef(TRUE)}

UniqueNames(f) == \A i, j \in 1..Len(f) : i # j => f[i].name # f[j].name

\* what vtable_bind(name, value) does to the frames tp
BindFrameEffect(tp, name, value) ==
    LET after == vtable_bind(tp, name, value)
        n     == Len(tp)
    IN  /\ Len(after) = n
        /\ \A d \in 1..(n - 1) : after[d] = tp[d]
        /\ vtable_get(after, name) = value
        /\ \A id \in LookupNames(tp) \ {name} : vtable_get(after, id) = vtable_get(tp, id)
        /\ UniqueNames(after[n])
        /\ Len(after[n]) = Len(tp[n]) + (IF FrameHas(tp[n], name) THEN 0 ELSE 1)

\* a frame pushed on tp, bound to twice and popped leaves every lookup as it was
PopRestores(tp, name, value) ==
    LET pushed == vtable_bind(vtable_bind(vtable_push(tp), name, value), "fresh", value)
    IN  /\ vtable_get(pushed, name) = value
        /\ \A id \in LookupNames(tp) : vtable_get(vtable_pop(pushed), id) = vtable_get(tp, id)

\* C28: vtable_bind(name, value) changes only the top frame: afterwards the
\* lookup of name returns value, the lookup of every other identifier and
\* every lower frame are as before, and the top frame has one entry for
\* each identifier, an existing entry being replaced; popping a frame
\* restores every lookup; and no step of the evaluator changes a frame
\* below the top frame
C28_BindTopFrameOnly ==
    /\ [](pc = "run" /\ Len(top) > 0 =>
             \A name \in LookupNames(top), value \in BindValues :
                 /\ ~BindAsserts(top, name) => BindFrameEffect(top, name, value)
                 /\ PopRestores(top, name, value))
    /\ [][top' # top =>
             /\ Len(top') >= Len(top) - 1
             /\ Len(top') <= Len(top) + 1
             /\ Len(top') = Len(top) - 1 => top' = vtable_pop(top)
             /\ Len(top') = Len(top) => \A d \in 1..(Len(top) - 1) : top'[d] = top[d]
             /\ Len(top') = Len(top) + 1 => \A d \in 1..Len(top) : top'[d] = top[d]
             /\ Len(top') > 0 => UniqueNames(top'[Len(top')])]_vars

\* a nested call whose frame binds an identifier to another value than the
\* frame of its caller does
C28_Witness ==
    /\ pc = "run"
    /\ Len(top) >= 2
    /\ \E e \in 1..Len(top[Len(top)]) :
          /\ FrameHas(top[Len(top) - 1], top[Len(top)][e].name)
          /\ vtable_get(top, top[Len(top)][e].name)
                # vtable_get(vtable_pop(top), top[Len(top)][e].name)

\* ------------------------------------------------------------------------
\* C29: names are resolved in the callee's own frame
\* ------------------------------------------------------------------------

\* eval_fcall is about to return from the body of a call of f
ReturnsFrom(f) == pc = "run" /\ ctl # <<>> /\ K.op = "fcall_ret" /\ K.t.ref = f

\* C29: readr reads a local variable that was declared without an initial
\* value and never assigned, a name with no binding in its own frame: the
\* call is returned as it is when it is evaluated at top level, and in the
\* same way when it is evaluated inside the body of another function,
\* whatever the frames of its callers bind
C29_LexicalScope ==
    [][ReturnsFrom("readr") => Head(vals') = K.t]_vars

\* ------------------------------------------------------------------------
\* VHPI callback objects
\* ------------------------------------------------------------------------

GlobalReasons ==
    {"vhpiCbStartOfSimulation", "vhpiCbEndOfSimulation", "vhpiCbEndOfProcesses",
     "vhpiCbLastKnownDeltaCycle", "vhpiCbNextTimeStep"}

RepReasons ==
    {"vhpiCbRepEndOfProcesses", "vhpiCbRepLastKnownDeltaCycle", "vhpiCbRepNextTimeStep"}

\* (obj->cb.reason)--: the non-repetitive constant of a repetitive reason
NonRepetitive(reason) ==
    CASE reason = "vhpiCbRepEndOfProcesses" -> "vhpiCbEndOfProcesses"
      [] reason = "vhpiCbRepLastKnownDeltaCycle" -> "vhpiCbLastKnownDeltaCycle"
      [] reason = "vhpiCbRepNextTimeStep" -> "vhpiCbNextTimeStep"
      [] OTHER -> reason

\* the reasons and flags vhpi_register_cb is called with
RegisterReasons ==
    {"vhpiCbEndOfSimulation", "vhpiCbRepNextTimeStep", "vhpiCbAfterDelay", "vhpiCbValueChange"}

RegisterFlags == SUBSET {"vhpiReturnCb", "vhpiDisableCb"}

\* the function vhpi_register_cb hands to the runtime for a reason
RtCallback(reason) ==
    IF reason = "vhpiCbAfterDelay" THEN "vhpi_timeout_cb"
    ELSE IF reason = "vhpiCbValueChange" THEN "vhpi_signal_event_cb"
    ELSE "vhpi_global_cb"

\* the part of the state vhpi_release_handle works on
VhpiState == [objs |-> objs, cb_list |-> cb_list, rt_cbs |-> rt_cbs]

vhpi_free_obj(s, o) == [s EXCEPT !.objs[o].magic = "freed"]

\* list->objects[list->num] is the first free slot: num is never decremented
vhpi_remember_cb(s, o) ==
    [s EXCEPT !.cb_list = [objects |-> Append(s.cb_list.objects, o), num |-> s.cb_list.num + 1],
              !.objs[o].list_pos = s.cb_list.num]

\* the asserts of vhpi_forget_cb
ForgetAsserts(s, o) ==
    LET pos == s.objs[o].list_pos
    IN  ~(pos >= 0 /\ pos < Len(s.cb_list.objects) /\ s.cb_list.objects[pos + 1] = o)

vhpi_forget_cb(s, o) ==
    [s EXCEPT !.cb_list.objects[s.objs[o].list_pos + 1] = 0,
              !.objs[o].list_pos = -1]

\* vhpi_release_handle fails an assert of vhpi_forget_cb
ReleaseAsserts(s, o) ==
    /\ s.objs[o].reason \in GlobalReasons \cup RepReasons \/ s.objs[o].list_pos # -1
    /\ ForgetAsserts(s, o)

\* vhpi_release_handle of a callback object: the object is freed at once
\* for a global reason, kept for the timeout that is still to come for
\* vhpiCbAfterDelay, and taken from the runtime for vhpiCbValueChange
vhpi_release_handle(s, o) ==
    LET cb     == s.objs[o]
        forgot == IF cb.list_pos # -1 THEN vhpi_forget_cb(s, o) ELSE s
    IN  IF cb.reason \in GlobalReasons \cup RepReasons
        THEN vhpi_free_obj(vhpi_forget_cb(s, o), o)
        ELSE IF cb.reason = "vhpiCbAfterDelay"
        THEN IF cb.fired THEN vhpi_free_obj(forgot, o)
             ELSE [forgot EXCEPT !.objs[o].released = TRUE]
        ELSE [forgot EXCEPT !.rt_cbs = {c \in @ : c.user # o}]

\* the state s becomes the state of the module
VhpiGo(s) ==
    /\ objs' = s.objs
    /\ cb_list' = s.cb_list
    /\ rt_cbs' = s.rt_cbs
    /\ UNCHANGED <<evalVars, boundsVars, hostVars>>

VhpiAbort ==
    /\ vpc' = "aborted"
    /\ UNCHANGED <<evalVars, boundsVars, hostVars, objs, cb_list, rt_cbs, handles, hist>>

\* vhpi_register_cb; given is false for vhpiCbAfterDelay without a time
\* and for vhpiCbValueChange on an object that is not a signal
VhpiRegisterCb ==
    /\ vpc = "running"
    /\ \E o \in Objs, reason \in RegisterReasons, flags \in RegisterFlags, given \in BOOLEAN :
          /\ objs[o].magic = "none"
          /\ \A b \in 1..(o - 1) : objs[b].magic # "none"
          /\ LET obj == [magic      |-> "VHPI_MAGIC",
                         reason     |-> NonRepetitive(reason),
                         enabled    |-> "vhpiDisableCb" \notin flags,
                         fired      |-> FALSE,
                         repetitive |-> reason \in RepReasons \/ reason = "vhpiCbValueChange",
                         released   |-> FALSE,
                         list_pos   |-> -1,
                         has_handle |-> "vhpiReturnCb" \in flags]
                 s   == [VhpiState EXCEPT !.objs[o] = obj]
             IN  IF reason \in {"vhpiCbAfterDelay", "vhpiCbValueChange"} /\ ~given
                 THEN /\ VhpiGo(vhpi_free_obj([s EXCEPT !.objs[o].repetitive = FALSE], o))
                      /\ UNCHANGED <<handles, vpc, hist>>
                 ELSE /\ VhpiGo(vhpi_remember_cb(
                                   [s EXCEPT !.rt_cbs = @ \cup {[fn |-> RtCallback(reason),
                                                                 user |-> o]}], o))
                      /\ handles' = IF "vhpiReturnCb" \in flags THEN handles \cup {o}
                                    ELSE handles
                      /\ UNCHANGED <<vpc, hist>>

VhpiDisableCb ==
    /\ vpc = "running"
    /\ \E o \in handles :
          /\ objs' = [objs EXCEPT ![o].enabled = FALSE]
          /\ UNCHANGED <<evalVars, boundsVars, hostVars, cb_list, rt_cbs, handles, vpc, hist>>

VhpiEnableCb ==
    /\ vpc = "running"
    /\ \E o \in handles :
          /\ objs' = [objs EXCEPT ![o].enabled = TRUE]
          /\ UNCHANGED <<evalVars, boundsVars, hostVars, cb_list, rt_cbs, handles, vpc, hist>>

\* the user gives a handle back
Release(o) ==
    IF ReleaseAsserts(VhpiState, o) THEN VhpiAbort
    ELSE /\ VhpiGo(vhpi_release_handle(VhpiState, o))
         /\ handles' = handles \ {o}
         /\ hist' = [hist EXCEPT ![o].released = TRUE]
         /\ UNCHANGED vpc

\* vhpi_release_handle, called by the user or through vhpi_remove_cb
VhpiReleaseHandle ==
    /\ vpc = "running"
    /\ \E o \in handles : Release(o)

\* what the user routine does with the handle of its callback
RoutineActs(o) == IF o \in handles THEN {"return", "release"} ELSE {"return"}

\* vhpi_fire_event
vhpi_fire_event(s, o) ==
    LET cb == s.objs[o]
    IN  IF cb.released
        THEN IF cb.list_pos # -1 THEN VhpiAbort
             ELSE /\ VhpiGo(vhpi_free_obj(s, o))
                  /\ UNCHANGED <<handles, vpc, hist>>
        ELSE IF cb.enabled /\ (~cb.fired \/ cb.repetitive)
        THEN LET release == ~cb.has_handle /\ ~cb.repetitive
                 s1      == [s EXCEPT !.objs[o].fired = TRUE]
             IN  \E act \in RoutineActs(o) :
                    LET s2 == IF act = "release" THEN vhpi_release_handle(s1, o) ELSE s1
                    IN  IF (act = "release" /\ ReleaseAsserts(s1, o))
                           \/ (release /\ ReleaseAsserts(s2, o))
                        THEN VhpiAbort
                        ELSE /\ VhpiGo(IF release THEN vhpi_release_handle(s2, o) ELSE s2)
                             /\ handles' = IF act = "release" THEN handles \ {o} ELSE handles
                             /\ hist' = [hist EXCEPT
                                           ![o].calls = @ + 1,
                                           ![o].late = @ \/ ~cb.enabled \/ hist[o].released,
                                           ![o].released = @ \/ release \/ act = "release"]
                             /\ UNCHANGED vpc
        ELSE /\ VhpiGo(s)
             /\ UNCHANGED <<handles, vpc, hist>>

\* the runtime calls c.fn(c.user); a timeout and a global event are
\* delivered once, a signal event until the callback is taken away.
\* vhpi_get_obj reads the magic of the object: of freed memory the read
\* gives anything, so the callback is dropped or followed
Deliver(c) ==
    LET o == c.user
        s == [VhpiState EXCEPT !.rt_cbs = IF c.fn = "vhpi_signal_event_cb" THEN @ ELSE @ \ {c}]
    IN  /\ hist[o].calls < MaxCalls
        /\ IF objs[o].magic = "freed"
           THEN /\ VhpiGo(s)
                /\ \E followed \in BOOLEAN :
                      hist' = [hist EXCEPT ![o].uaf = TRUE,
                                           ![o].late = @ \/ followed,
                                           ![o].calls = IF followed THEN @ + 1 ELSE @]
                /\ UNCHANGED <<handles, vpc>>
           ELSE vhpi_fire_event(s, o)

VhpiGlobalCb ==
    /\ vpc = "running"
    /\ \E c \in rt_cbs : c.fn = "vhpi_global_cb" /\ Deliver(c)

VhpiTimeoutCb ==
    /\ vpc = "running"
    /\ \E c \in rt_cbs : c.fn = "vhpi_timeout_cb" /\ Deliver(c)

VhpiSignalEventCb ==
    /\ vpc = "running"
    /\ \E c \in rt_cbs : c.fn = "vhpi_signal_event_cb" /\ Deliver(c)

VhpiNext ==
    \/ VhpiRegisterCb
    \/ VhpiDisableCb
    \/ VhpiEnableCb
    \/ VhpiReleaseHandle
    \/ VhpiGlobalCb
    \/ VhpiTimeoutCb
    \/ VhpiSignalEventCb

VhpiSpec == Init /\ [][VhpiNext]_vars

\* ------------------------------------------------------------------------
\* C30: the life of a callback object
\* ------------------------------------------------------------------------

\* the routine of o was only invoked while o was enabled and not released
InvokedInTime(o) == ~hist[o].late

\* the routine of a callback that is not repetitive was invoked at most once
InvokedOnce(o) == objs[o].magic # "none" /\ ~objs[o].repetitive => hist[o].calls <= 1

\* no fire event used o after it was freed
NoUseAfterFree(o) == ~hist[o].uaf

\* C30: over every sequence of vhpi_register_cb, vhpi_enable_cb,
\* vhpi_disable_cb, vhpi_release_handle, vhpi_remove_cb and fire events
\* of the runtime, the routine of a callback is only invoked while the
\* callback is enabled and not released, the routine of a callback that is
\* not repetitive is invoked at most once, and a fire event that comes
\* after the release neither invokes the routine nor uses a freed object
C30_CallbackLifecycle ==
    \A o \in Objs : InvokedInTime(o) /\ InvokedOnce(o) /\ NoUseAfterFree(o)

====
